---------------------------- MODULE Spec2Model ----------------------------
(***************************************************************************)
(* Model of the audio-reactive LED firmware (rust_esp32_wled).             *)
(*                                                                         *)
(* f32 values are modelled as fixed-point integers with FIX units per 1.0  *)
(* (0.15 is 150, 15.0 is 15000); products and quotients truncate toward    *)
(* zero.  A sample is its normalised value sample/2^31 in the same unit,   *)
(* so the i32 range maps onto -FIX..FIX (i32::MAX as f32 is exactly 2^31). *)
(***************************************************************************)
EXTENDS Integers, Sequences, FiniteSets, TLC

VARIABLES
    \* AudioProcessor fields (audio.rs 16-30)
    amplitude, bass_level, mid_level, treble_level, peak_freq,
    gain, peak_history,
    smooth_amplitude, smooth_bass, smooth_mid, smooth_treble,
    \* every level passed to update_agc so far, in call order (observer)
    level_log,
    \* the audio thread (audio.rs 250-276, 70-98): its position, the block it
    \* read last, the number of blocks read, and the band energies summed by
    \* analyze_frequencies_fft
    audio_pc, cur_block, block_no, fft_energy,
    \* the mutexes of the cells a reader locks: who holds each
    holder,
    \* the block that last wrote each cell (observer)
    stamp,
    \* a reader running audio_to_led_params: its position, the values read
    \* so far with the stamp each had, and the number of calls made
    render_pc, snap, reads_done, led_params,
    \* the command queue Q (main.rs 32): ring buffer, head and tail index
    q_buffer, q_head, q_tail,
    \* the Mutex around the Producer (main.rs 299): "free" or the handler
    producer_lock,
    \* the /led handler (http.rs 43-169): position, commands_to_send,
    \* send_success and the status it answered last
    led_http_pc, commands_to_send, send_success, led_http_status,
    \* the commands the /led request being served was parsed into (observer)
    led_request,
    \* the /power handler (http.rs 608-645): position and parsed state
    power_http_pc, power_state, power_http_status,
    \* led_task (main.rs 105-175): position and commands_processed, and
    \* whether power_on or power_off was the controller's last power call
    led_pc, commands_processed, powered,
    \* observers: requests served per endpoint, commands created, commands
    \* accepted by the queue, handed back by a failed enqueue, and applied
    \* by led_task, each in order
    requests, next_id, accepted, rejected, applied,
    \* LedController fields (controller.rs 23-37); elapsed is the timer's
    \* now - last_update in microseconds
    brightness, color, effect, speed, tick, elapsed, prev_frame, needs_update,
    \* the strip: the bytes it latched last, the result of the last
    \* write_blocking, and a bit flipped by every write_blocking (observers)
    strip, last_write, write_seq,
    \* the last operation on the controller (observer)
    ctl_last,
    \* a StaticEffect of either revision, the buffer it renders into, the
    \* last call made on it and what that call returned (observers)
    fx_variant, fx_color, fx_buffer, fx_last, fx_returned,
    \* a RainbowEffect (rainbow_effect.rs 8-13), the timer in model time
    \* units, the hue of pixel 0 just before the last set_speed, the last
    \* call made, whether a checked subtraction has panicked, and the number of
    \* set_speed calls so far (observers)
    rb_speed, rb_start_time, rb_now, rb_hue_before, rb_last, rb_panicked,
    rb_changes,
    \* the audio-reactive effect the controller holds (effects/mod.rs): which
    \* one was constructed, the timer, the buffer handed to update_audio, and
    \* the three structs with the fields of their sources
    re_effect, re_now, re_buffer, gravimeter, radial_pulse, vu_meter,
    \* observers of the last update_audio: what it did, the AudioData and
    \* the time step it was given, the number of calls so far, the pixels it
    \* assigned, every spawn request it made, the particles or pulses its
    \* retain_mut dropped, and the VU meter before it
    re_last, re_audio, re_dt, re_calls, re_written, spawn_trace, re_removed,
    vu_before,
    \* one detect_peak call on each effect: its arguments and the results
    dp_current, dp_history, dp_result,
    \* main (main.rs 268-349): its position; what start_i2s_audio_task
    \* returned (audio.rs 192-279), and the reads that returned an error
    \* (observer)
    main_pc, start_result, read_errors,
    \* a ScannerEffect (effect.rs 373-380) with the fields of its source; the
    \* effect before the last call, the last call made, whether update
    \* returned true, how the last render ended, and the number of calls so
    \* far (observers)
    scanner, scanner_before, scanner_last, scanner_stepped, scanner_render,
    scanner_calls,
    \* a LedScheduler (scheduler.rs 169-173) with the fields of its source; the
    \* scheduler before the last call, the last call made and what it returned,
    \* the last two check_and_execute calls, and the ids add_schedule has
    \* stored schedules under (observers)
    scheduler, sched_before, sched_last, sched_ret, sched_checks, sched_issued,
    \* the scheduler part of led_task (main.rs 141-171): the timer in ms, the
    \* TimeCache, the holder of the scheduler mutex, led_task's position and
    \* whether it has run since the timer moved; the /schedule/add handler
    \* (http.rs 344-453): position, request and status; and the schedules due
    \* in the current minute, those executed in it, those a minute ended
    \* without, and the minutes whose change met a held lock (observers)
    now_ms, time_cache, sched_lock, lt_pc, led_ran, sched_http_pc,
    sched_http_req, sched_http_status, lt_due, lt_fired, lt_missed, lt_busy,
    \* a BlinkEffect (effects/blink_effect.rs 6-18) with the fields of its
    \* source, the time of the last update and the buffer it is given; the
    \* last call made, whether it wrote the buffer, and the calls so far
    \* (observers)
    blink, blink_now, blink_buffer, blink_last, blink_wrote, blink_calls,
    \* a ColorWipeEffect (effect.rs 220-226) with the fields of its source;
    \* the last call made, whether update returned true, and the calls so far
    \* (observers)
    wipe, wipe_last, wipe_stepped, wipe_calls

audio_vars == << amplitude, bass_level, mid_level, treble_level, peak_freq,
                 gain, peak_history,
                 smooth_amplitude, smooth_bass, smooth_mid, smooth_treble >>

thread_vars == << audio_pc, cur_block, block_no, fft_energy, holder, stamp >>

render_vars == << render_pc, snap, reads_done, led_params >>

queue_vars == << q_buffer, q_head, q_tail, producer_lock >>

http_vars == << led_http_pc, commands_to_send, led_request, send_success,
               led_http_status,
                power_http_pc, power_state, power_http_status >>

led_vars == << led_pc, commands_processed, powered >>

log_vars == << requests, next_id, accepted, rejected, applied >>

inbox_vars == << queue_vars, http_vars, led_vars, log_vars >>

ctl_vars == << brightness, color, effect, speed, tick, elapsed, prev_frame,
               needs_update, strip, last_write, write_seq, ctl_last >>

fx_vars == << fx_variant, fx_color, fx_buffer, fx_last, fx_returned >>

rb_vars == << rb_speed, rb_start_time, rb_now, rb_hue_before, rb_last,
              rb_panicked, rb_changes >>

reactive_vars == << re_effect, re_now, re_buffer, gravimeter, radial_pulse,
                    vu_meter, re_last, re_audio, re_dt, re_calls, re_written,
                    spawn_trace, re_removed, vu_before >>

dp_vars == << dp_current, dp_history, dp_result >>

task_vars == << main_pc, start_result, read_errors >>

scanner_vars == << scanner, scanner_before, scanner_last, scanner_stepped,
                   scanner_render, scanner_calls >>

\* the effects of effect.rs and effects/blink_effect.rs, the scheduler and
\* the power state
sched_vars == << scheduler, sched_before, sched_last, sched_ret, sched_checks,
                 sched_issued >>

ledsched_vars == << now_ms, time_cache, sched_lock, lt_pc, led_ran,
                    sched_http_pc, sched_http_req, sched_http_status, lt_due,
                    lt_fired, lt_missed, lt_busy >>

blink_vars == << blink, blink_now, blink_buffer, blink_last, blink_wrote,
                 blink_calls >>

wipe_vars == << wipe, wipe_last, wipe_stepped, wipe_calls >>

feature_vars == << scanner_vars, sched_vars, ledsched_vars, blink_vars,
                   wipe_vars >>

audio_fx_vars == << reactive_vars, dp_vars, task_vars, feature_vars >>

display_vars == << ctl_vars, fx_vars, rb_vars, audio_fx_vars >>

program_vars == << audio_vars, level_log, thread_vars, render_vars,
                   inbox_vars >>

\* everything but the controller and the frame-based effects
other_vars == << program_vars, audio_fx_vars >>

vars == << program_vars, display_vars >>

----------------------------------------------------------------------------
(* Bounds of the model *)

\* update_agc calls explored in SpecAgc
MaxCalls == 200
\* the first FreeCalls levels are arbitrary; later calls repeat the last one
FreeCalls == 3
\* sample blocks read by the audio thread
MaxBlocks == 3
\* length of an undersized block (fewer than FFT_SIZE samples)
ShortLen == 64
\* samples in a block of the task specifications
LoopLen == 2
\* calls of audio_to_led_params by the reader
MaxReads == 2
\* requests served by the /led and /power handlers together
MaxRequests == 2

----------------------------------------------------------------------------
(* Fixed-point arithmetic standing for f32 *)

FIX == 1000

TruncDiv(a, b) == IF a >= 0 THEN a \div b ELSE -((-a) \div b)

FMul(a, b) == TruncDiv(a * b, FIX)

FDiv(a, b) == TruncDiv(a * FIX, b)

Abs(x) == IF x >= 0 THEN x ELSE -x

Min(a, b) == IF a <= b THEN a ELSE b

Max(a, b) == IF a >= b THEN a ELSE b

RECURSIVE SumRange(_, _, _)
SumRange(s, lo, hi) ==
    IF lo > hi THEN 0
    ELSE IF lo = hi THEN s[lo]
    ELSE LET mid == (lo + hi) \div 2
         IN  SumRange(s, lo, mid) + SumRange(s, mid + 1, hi)

SumSeq(s) == SumRange(s, 1, Len(s))

\* f32::clamp
Clamp(x, lo, hi) == IF x < lo THEN lo ELSE IF x > hi THEN hi ELSE x

----------------------------------------------------------------------------
(* AudioProcessor::update_agc (audio.rs 107-132) *)

TARGET_LEVEL == 700
AGC_SPEED == 150
MIN_GAIN == 500
MAX_GAIN == 15000
HIST_CAP == 100
AGC_EPS == 10

\* peak_hist.push(level); if peak_hist.len() > 100 { peak_hist.remove(0) }
AgcPushEvictNewest(hist, level) ==
    IF Len(hist) + 1 > HIST_CAP THEN hist ELSE Append(hist, level)
AgcPush(hist, level) ==
    LET pushed == Append(hist, level)
    IN  IF Len(pushed) > HIST_CAP THEN Tail(pushed) ELSE pushed

\* avg_peak: the mean of the history, 0.0 when it is empty
AvgPeakOverCapacity(hist) ==
    IF Len(hist) > 0 THEN TruncDiv(SumSeq(hist), HIST_CAP) ELSE 0
AvgPeak(hist) ==
    IF Len(hist) > 0 THEN TruncDiv(SumSeq(hist), Len(hist)) ELSE 0

\* the gain after the update, given the history after the push
AgcGainUnclamped(g, hist) ==
    IF AvgPeak(hist) > AGC_EPS
    THEN g + FMul(FDiv(TARGET_LEVEL, AvgPeak(hist)) - g, AGC_SPEED)
    ELSE g
AgcGainAboveZero(g, hist) ==
    IF AvgPeak(hist) > 0
    THEN Clamp(g + FMul(FDiv(TARGET_LEVEL, AvgPeak(hist)) - g, AGC_SPEED),
               MIN_GAIN, MAX_GAIN)
    ELSE g
AgcGain(g, hist) ==
    LET avg_peak == AvgPeak(hist)
    IN  IF avg_peak > AGC_EPS
        THEN LET target_gain == FDiv(TARGET_LEVEL, avg_peak)
                 new_gain == g + FMul(target_gain - g, AGC_SPEED)
             IN  Clamp(new_gain, MIN_GAIN, MAX_GAIN)
        ELSE g

\* AudioProcessor::new (audio.rs 33-47)
InitAudio ==
    /\ amplitude = 0
    /\ bass_level = 0
    /\ mid_level = 0
    /\ treble_level = 0
    /\ peak_freq = 0
    /\ gain = FIX
    /\ peak_history = << >>
    /\ smooth_amplitude = 0
    /\ smooth_bass = 0
    /\ smooth_mid = 0
    /\ smooth_treble = 0

----------------------------------------------------------------------------
(* The command inbox: Q, its producer lock, and its users *)

QUEUE_N == 8
MAX_BODY_COMMANDS == 8
COMMANDS_PER_ITERATION == 4

NoCommand == [kind |-> "none", arg |-> 0, id |-> 0]

InitInbox ==
    /\ q_buffer = [i \in 0..(QUEUE_N - 1) |-> NoCommand]
    /\ q_head = 0
    /\ q_tail = 0
    /\ producer_lock = "free"
    /\ led_http_pc = "idle"
    /\ commands_to_send = << >>
    /\ led_request = << >>
    /\ send_success = TRUE
    /\ led_http_status = 0
    /\ power_http_pc = "idle"
    /\ power_state = FALSE
    /\ power_http_status = 0
    /\ led_pc = "drain"
    /\ commands_processed = 0
    /\ powered = FALSE
    /\ requests = [led |-> 0, power |-> 0]
    /\ next_id = 1
    /\ accepted = << >>
    /\ rejected = << >>
    /\ applied = << >>

\* heapless::spsc::Queue<LedCommand, 8>: one slot of the ring stays empty
NextIndex(i) == (i + 1) % QUEUE_N

QFull == NextIndex(q_tail) = q_head

QEmpty == q_head = q_tail

QLen == (q_tail - q_head + QUEUE_N) % QUEUE_N

\* the queued commands, oldest first
QItems == [k \in 1..QLen |-> q_buffer[(q_head + k - 1) % QUEUE_N]]

\* producer_guard.enqueue(cmd): Err(cmd) when the queue is full
ProducerEnqueueUnchecked(cmd) ==
    /\ q_buffer' = [q_buffer EXCEPT ![q_tail] = cmd]
    /\ q_tail' = NextIndex(q_tail)
    /\ accepted' = Append(accepted, cmd)
    /\ UNCHANGED << q_head, rejected >>
ProducerEnqueue(cmd) ==
    IF QFull
    THEN /\ rejected' = Append(rejected, cmd)
         /\ UNCHANGED << q_buffer, q_head, q_tail, accepted >>
    ELSE /\ q_buffer' = [q_buffer EXCEPT ![q_tail] = cmd]
         /\ q_tail' = NextIndex(q_tail)
         /\ accepted' = Append(accepted, cmd)
         /\ UNCHANGED << q_head, rejected >>

\* LedCommand (http.rs 19-25); the effect is its discriminant, a brightness
\* is in FIX units, a color is 0xRRGGBB, a power state is 0 or 1
EFFECT_RAINBOW == 2

\* a request body: its key=value pairs, in order
Bodies ==
    { << [key |-> "bogus", value |-> 1] >>,
      << [key |-> "mode", value |-> EFFECT_RAINBOW],
         [key |-> "brightness", value |-> 250],
         [key |-> "bogus", value |-> 1],
         [key |-> "speed", value |-> 10],
         [key |-> "color", value |-> 255 * 65536] >>,
      [i \in 1..(MAX_BODY_COMMANDS + 1) |-> [key |-> "speed", value |-> i]] }

\* the command one pair stands for (http.rs 72-121)
CommandOf(pair) ==
    CASE pair.key = "mode" -> [kind |-> "SetEffect", arg |-> pair.value]
      [] pair.key = "brightness" ->
            [kind |-> "SetBrightness",
             arg |-> FDiv(IF pair.value < 100 THEN pair.value ELSE 100,
                          100)]
      [] pair.key = "speed" -> [kind |-> "SetSpeed", arg |-> pair.value]
      [] pair.key = "color" -> [kind |-> "SetColor", arg |-> pair.value]
      [] OTHER -> [kind |-> "none", arg |-> 0]

\* commands_to_send after the pairs i.. of the body are parsed: a pair
\* that is no command, or that finds the vector full, is skipped
RECURSIVE ParseBody(_, _, _, _)
ParseBody(body, i, cmds, id) ==
    IF i > Len(body) THEN cmds
    ELSE LET c == CommandOf(body[i])
         IN  IF c.kind = "none" \/ Len(cmds) >= MAX_BODY_COMMANDS
             THEN ParseBody(body, i + 1, cmds, id)
             ELSE ParseBody(body, i + 1,
                            Append(cmds, [kind |-> c.kind, arg |-> c.arg,
                                          id |-> id + Len(cmds)]),
                            id)

\* /led: the body is read and parsed (http.rs 44-123)
LedHttpParse(body) ==
    /\ led_http_pc = "idle"
    /\ requests.led + requests.power < MaxRequests
    /\ requests' = [requests EXCEPT !.led = @ + 1]
    /\ LET cmds == ParseBody(body, 1, << >>, next_id)
       IN  /\ commands_to_send' = cmds
           /\ led_request' = cmds
           /\ next_id' = next_id + Len(cmds)
    /\ send_success' = TRUE
    /\ led_http_pc' = "try_lock"
    /\ UNCHANGED << display_vars, audio_vars, level_log, thread_vars, render_vars,
                    queue_vars, led_http_status, power_http_pc, power_state,
                    power_http_status, led_vars, accepted, rejected, applied >>

\* http.rs 126-141: nothing to send, or producer.try_lock()
LedHttpLockWaiting ==
    /\ led_http_pc = "try_lock"
    /\ IF commands_to_send = << >>
       THEN /\ send_success' = FALSE
            /\ led_http_pc' = "respond"
            /\ UNCHANGED producer_lock
       ELSE /\ producer_lock = "free"
            /\ producer_lock' = "led"
            /\ led_http_pc' = "enqueue"
            /\ UNCHANGED send_success
    /\ UNCHANGED << display_vars, audio_vars, level_log, thread_vars, render_vars,
                    q_buffer, q_head, q_tail, commands_to_send, led_request,
                    led_http_status, power_http_pc, power_state,
                    power_http_status, led_vars, log_vars >>
LedHttpTryLock ==
    /\ led_http_pc = "try_lock"
    /\ IF commands_to_send = << >>
       THEN /\ send_success' = FALSE
            /\ led_http_pc' = "respond"
            /\ UNCHANGED producer_lock
       ELSE IF producer_lock = "free"
       THEN /\ producer_lock' = "led"
            /\ led_http_pc' = "enqueue"
            /\ UNCHANGED send_success
       ELSE /\ send_success' = FALSE
            /\ led_http_pc' = "respond"
            /\ UNCHANGED producer_lock
    /\ UNCHANGED << display_vars, audio_vars, level_log, thread_vars, render_vars,
                    q_buffer, q_head, q_tail, commands_to_send, led_request,
                    led_http_status, power_http_pc, power_state,
                    power_http_status, led_vars, log_vars >>

\* http.rs 130-135: the next command is enqueued; the first failure ends the
\* loop, the end of the loop drops the guard
LedHttpEnqueue ==
    /\ led_http_pc = "enqueue"
    /\ IF commands_to_send = << >>
       THEN /\ producer_lock' = "free"
            /\ led_http_pc' = "respond"
            /\ UNCHANGED << q_buffer, q_head, q_tail, accepted, rejected,
                            commands_to_send, send_success >>
       ELSE /\ ProducerEnqueue(Head(commands_to_send))
            /\ IF QFull
               THEN /\ send_success' = FALSE
                    /\ commands_to_send' = << >>
                    /\ producer_lock' = "free"
                    /\ led_http_pc' = "respond"
               ELSE /\ commands_to_send' = Tail(commands_to_send)
                    /\ UNCHANGED << send_success, producer_lock, led_http_pc >>
    /\ UNCHANGED led_request
    /\ UNCHANGED << display_vars, audio_vars, level_log, thread_vars, render_vars,
                    led_http_status, power_http_pc, power_state,
                    power_http_status, led_vars, requests, next_id, applied >>

\* http.rs 144-166: 200 with the accepted values, or 503
LedHttpRespond ==
    /\ led_http_pc = "respond"
    /\ led_http_status' = IF send_success THEN 200 ELSE 503
    /\ led_http_pc' = "idle"
    /\ UNCHANGED << display_vars, audio_vars, level_log, thread_vars, render_vars,
                    queue_vars, commands_to_send, led_request, send_success,
                    power_http_pc, power_state, power_http_status, led_vars,
                    log_vars >>

\* /power: the body is parsed; st is 1 (on), 0 (off) or -1 (no state key)
PowerHttpParse(st) ==
    /\ power_http_pc = "idle"
    /\ requests.led + requests.power < MaxRequests
    /\ requests' = [requests EXCEPT !.power = @ + 1]
    /\ power_state' = st
    /\ power_http_pc' = IF st = -1 THEN "respond" ELSE "try_lock"
    /\ UNCHANGED << display_vars, audio_vars, level_log, thread_vars, render_vars,
                    queue_vars, led_http_pc, commands_to_send, led_request, send_success,
                    led_http_status, power_http_status, led_vars, next_id,
                    accepted, rejected, applied >>

\* http.rs 629: producer.try_lock(); a held lock skips the enqueue
PowerHttpTryLock ==
    /\ power_http_pc = "try_lock"
    /\ IF producer_lock = "free"
       THEN /\ producer_lock' = "power"
            /\ power_http_pc' = "enqueue"
       ELSE /\ power_http_pc' = "respond"
            /\ UNCHANGED producer_lock
    /\ UNCHANGED << display_vars, audio_vars, level_log, thread_vars, render_vars,
                    q_buffer, q_head, q_tail, led_http_pc, commands_to_send, led_request,
                    send_success, led_http_status, power_state,
                    power_http_status, led_vars, log_vars >>

\* http.rs 630-631: enqueue under the guard, the result ignored, and the
\* guard dropped
PowerHttpEnqueue ==
    /\ power_http_pc = "enqueue"
    /\ ProducerEnqueue([kind |-> "SetPowerState", arg |-> power_state,
                        id |-> next_id])
    /\ next_id' = next_id + 1
    /\ producer_lock' = "free"
    /\ power_http_pc' = "respond"
    /\ UNCHANGED << display_vars, audio_vars, level_log, thread_vars, render_vars,
                    led_http_pc, commands_to_send, led_request, send_success,
                    led_http_status, power_state, power_http_status,
                    led_vars, requests, applied >>

\* http.rs 633-642: 200 when a state was given, else 400
PowerHttpRespond ==
    /\ power_http_pc = "respond"
    /\ power_http_status' = IF power_state = -1 THEN 400 ELSE 200
    /\ power_http_pc' = "idle"
    /\ UNCHANGED << display_vars, audio_vars, level_log, thread_vars, render_vars,
                    queue_vars, led_http_pc, commands_to_send, led_request, send_success,
                    led_http_status, power_state, led_vars, log_vars >>

\* the power state after led_task has applied a command (main.rs 108-132):
\* every arm but SetPowerState calls power_on before the setter, and
\* SetPowerState calls power_on or power_off (its bool is 1 or 0 here)
PoweredAfterSpeedKeeps(cmd, was) ==
    CASE cmd.kind = "SetPowerState" -> cmd.arg = 1
      [] cmd.kind = "SetSpeed" -> was
      [] OTHER -> TRUE
PoweredAfter(cmd, was) ==
    CASE cmd.kind = "SetPowerState" -> cmd.arg = 1
      [] cmd.kind \in {"SetEffect", "SetBrightness", "SetColor", "SetSpeed"}
            -> TRUE
      [] OTHER -> was

\* led_task: consumer.dequeue() returned a command; it is applied and
\* counted, and the fourth one ends the drain (main.rs 107-139)
LedDequeueUnlimited ==
    /\ led_pc = "drain"
    /\ ~QEmpty
    /\ q_head' = NextIndex(q_head)
    /\ q_buffer' = [q_buffer EXCEPT ![q_head] = NoCommand]
    /\ applied' = Append(applied, q_buffer[q_head])
    /\ powered' = PoweredAfter(q_buffer[q_head], powered)
    /\ commands_processed' = commands_processed + 1
    /\ led_pc' = "drain"
    /\ UNCHANGED << display_vars, audio_vars, level_log, thread_vars, render_vars,
                    q_tail, producer_lock, http_vars, requests, next_id,
                    accepted, rejected >>
LedDequeueCountFirst ==
    /\ led_pc = "drain"
    /\ ~QEmpty
    /\ q_head' = NextIndex(q_head)
    /\ q_buffer' = [q_buffer EXCEPT ![q_head] = NoCommand]
    /\ commands_processed' = commands_processed + 1
    /\ IF commands_processed' >= COMMANDS_PER_ITERATION
       THEN led_pc' = "update" /\ UNCHANGED << applied, powered >>
       ELSE /\ led_pc' = "drain"
            /\ applied' = Append(applied, q_buffer[q_head])
            /\ powered' = PoweredAfter(q_buffer[q_head], powered)
    /\ UNCHANGED << display_vars, audio_vars, level_log, thread_vars, render_vars,
                    q_tail, producer_lock, http_vars, requests, next_id,
                    accepted, rejected >>
LedDequeue ==
    /\ led_pc = "drain"
    /\ ~QEmpty
    /\ q_head' = NextIndex(q_head)
    /\ q_buffer' = [q_buffer EXCEPT ![q_head] = NoCommand]
    /\ applied' = Append(applied, q_buffer[q_head])
    /\ powered' = PoweredAfter(q_buffer[q_head], powered)
    /\ commands_processed' = commands_processed + 1
    /\ led_pc' = IF commands_processed' >= COMMANDS_PER_ITERATION
                 THEN "update" ELSE "drain"
    /\ UNCHANGED << display_vars, audio_vars, level_log, thread_vars, render_vars,
                    q_tail, producer_lock, http_vars, requests, next_id,
                    accepted, rejected >>

\* consumer.dequeue() returned None: the drain ends
LedDrainEnd ==
    /\ led_pc = "drain"
    /\ QEmpty
    /\ led_pc' = "update"
    /\ UNCHANGED << display_vars, audio_vars, level_log, thread_vars, render_vars,
                    queue_vars, http_vars, commands_processed, powered, log_vars >>

\* the rest of the iteration: controller.update(), the delay, and
\* commands_processed reset at the top of the loop (main.rs 173-174, 106)
LedUpdate ==
    /\ led_pc = "update"
    /\ led_pc' = "drain"
    /\ commands_processed' = 0
    /\ UNCHANGED powered
    /\ UNCHANGED << display_vars, audio_vars, level_log, thread_vars, render_vars,
                    queue_vars, http_vars, log_vars >>

HttpStep ==
    \/ \E body \in Bodies : LedHttpParse(body)
    \/ LedHttpTryLock
    \/ LedHttpEnqueue
    \/ LedHttpRespond
    \/ \E st \in {-1, 0, 1} : PowerHttpParse(st)
    \/ PowerHttpTryLock
    \/ PowerHttpEnqueue
    \/ PowerHttpRespond

LedTaskStep ==
    \/ LedDequeue
    \/ LedDrainEnd
    \/ LedUpdate


----------------------------------------------------------------------------
(* LedController (controller.rs): commands, update and the strip *)

NumLeds == 2
MaxElapsed == 8000

FRAME_INTERVAL == 6944
LOOP_DELAY_US == 1000
BRIGHTNESS_EPS == 1
DEFAULT_SPEED == 128

\* RGB8
Rgb(r, g, b) == [r |-> r, g |-> g, b |-> b]

Black == Rgb(0, 0, 0)

DefaultColor == Rgb(150, 150, 150)

Colors == {DefaultColor, Rgb(255, 0, 0)}

\* the effects drawn as inputs.  tick is only ever reset by this
\* controller, and self.time is read by rainbow_effect and
\* theater_chase_effect alone, so the field time is left out with them.
EffectTypes == {"Static", "Off", "Blink", "ColorWipe"}

StaticLike == {"Static", "Off"}

\* vec![c; num_leds]
Fill(c) == [i \in 1..NumLeds |-> c]

\* ((pixel.r as f32) * self.brightness) as u8, per channel
ScalePixel(pixel, level) ==
    Rgb((pixel.r * level) \div FIX, (pixel.g * level) \div FIX,
        (pixel.b * level) \div FIX)

ScaleFrame(frame, level) ==
    [i \in 1..Len(frame) |-> ScalePixel(frame[i], level)]

\* blink_effect (192-201)
BlinkFrame ==
    LET cycle_length == (speed * 50) \div 255 + 10
        on == (tick % cycle_length) < cycle_length \div 2
    IN  Fill(IF on THEN color ELSE Black)

\* colorwipe_effect (277-317): progress is tick % cycle_length over
\* cycle_length; the first half fills from the left, the second clears
ColorWipeFrame ==
    LET cycle_length == (200 * 1000 * 255) \div (speed * 150 + 50 * 255)
        phase == IF cycle_length > 0 THEN tick % cycle_length ELSE 0
        len == IF cycle_length > 0 THEN cycle_length ELSE 1
    IN  IF 2 * phase < len
        THEN LET leds_to_fill == (2 * phase * NumLeds) \div len
             IN  [i \in 1..NumLeds |->
                     IF i - 1 < leds_to_fill THEN color ELSE Black]
        ELSE LET leds_to_clear == ((2 * phase - len) * NumLeds) \div len
             IN  [i \in 1..NumLeds |->
                     IF i - 1 < leds_to_clear THEN Black ELSE color]

\* the frame update computes for the active effect (111-115, 136-144)
EffectFrame ==
    CASE effect = "Static" -> Fill(color)
      [] effect = "Off" -> Fill(Black)
      [] effect = "Blink" -> BlinkFrame
      [] effect = "ColorWipe" -> ColorWipeFrame

\* the frame compared with prev_frame: Static and Off compare the
\* brightness-adjusted frame (118-127), the others the frame itself (146)
ComparedFrame(frame) ==
    IF effect \in StaticLike THEN ScaleFrame(frame, brightness) ELSE frame

\* the frame stored in prev_frame after a transfer (129, 148)
StoredFrameUnadjusted(frame) == frame
StoredFrame(frame) ==
    IF effect \in StaticLike THEN ScaleFrame(frame, brightness) ELSE frame

\* lines 127 and 146
NeedsTransferOnChange(frame) == ComparedFrame(frame) # prev_frame
NeedsTransfer(frame) == ComparedFrame(frame) # prev_frame \/ needs_update

\* LedController::new (40-56).  last_update starts at 0 and the timer
\* counts from boot, so the first update finds at least MaxElapsed elapsed.
InitController ==
    /\ brightness = FIX
    /\ color = DefaultColor
    /\ effect = "Static"
    /\ speed = DEFAULT_SPEED
    /\ tick = 0
    /\ elapsed = MaxElapsed
    /\ prev_frame = Fill(Black)
    /\ needs_update = TRUE
    /\ strip = Fill(Black)
    /\ last_write = "none"
    /\ write_seq = 0
    /\ ctl_last = "new"

\* set_brightness (62-70)
SetBrightness(level) ==
    /\ LET new_level == Clamp(level, 0, FIX)
       IN  IF Abs(brightness - new_level) > BRIGHTNESS_EPS
           THEN brightness' = new_level /\ needs_update' = TRUE
           ELSE UNCHANGED << brightness, needs_update >>
    /\ ctl_last' = "set_brightness"
    /\ UNCHANGED << other_vars, fx_vars, rb_vars, color, effect, speed,
                    tick, elapsed, prev_frame, strip, last_write,
                    write_seq >>

\* set_color (72-77)
SetColor(c) ==
    /\ IF color # c
       THEN color' = c /\ needs_update' = TRUE
       ELSE UNCHANGED << color, needs_update >>
    /\ ctl_last' = "set_color"
    /\ UNCHANGED << other_vars, fx_vars, rb_vars, brightness, effect,
                    speed, tick, elapsed, prev_frame, strip, last_write,
                    write_seq >>

\* set_effect (79-83)
SetEffectResetting(e) ==
    /\ tick' = 0
    /\ effect' = e
    /\ needs_update' = TRUE
    /\ color' = DefaultColor
    /\ speed' = DEFAULT_SPEED
    /\ ctl_last' = "set_effect"
    /\ UNCHANGED << other_vars, fx_vars, rb_vars, brightness, elapsed,
                    prev_frame, strip, last_write, write_seq >>
SetEffect(e) ==
    /\ tick' = 0
    /\ effect' = e
    /\ needs_update' = TRUE
    /\ ctl_last' = "set_effect"
    /\ UNCHANGED << other_vars, fx_vars, rb_vars, brightness, color, speed,
                    elapsed, prev_frame, strip, last_write, write_seq >>

\* set_speed (85-94)
SetSpeed(s) ==
    /\ speed' = Clamp(s, 1, 255)
    /\ IF speed # speed'
       THEN tick' = 0 /\ needs_update' = TRUE
       ELSE UNCHANGED << tick, needs_update >>
    /\ ctl_last' = "set_speed"
    /\ UNCHANGED << other_vars, fx_vars, rb_vars, brightness, color,
                    effect, elapsed, prev_frame, strip, last_write,
                    write_seq >>

\* the timer runs on between two calls of update: the loop's 1 ms delay
TimerAdvance ==
    /\ elapsed < MaxElapsed
    /\ elapsed' = elapsed + LOOP_DELAY_US
    /\ ctl_last' = "advance"
    /\ UNCHANGED << other_vars, fx_vars, rb_vars, brightness, color,
                    effect, speed, tick, prev_frame, needs_update, strip,
                    last_write, write_seq >>

\* update, frame not yet due (100-102)
UpdateEarly ==
    /\ elapsed < FRAME_INTERVAL
    /\ ctl_last' = "early"
    /\ UNCHANGED << other_vars, fx_vars, rb_vars, brightness, color,
                    effect, speed, tick, elapsed, prev_frame, needs_update,
                    strip, last_write, write_seq >>

\* update, frame due, nothing to transfer (127/146 false, 132/151)
UpdateSkip ==
    /\ elapsed >= FRAME_INTERVAL
    /\ ~NeedsTransfer(EffectFrame)
    /\ elapsed' = 0
    /\ needs_update' = FALSE
    /\ ctl_last' = "skipped"
    /\ UNCHANGED << other_vars, fx_vars, rb_vars, brightness, color,
                    effect, speed, tick, prev_frame, strip, last_write,
                    write_seq >>

\* update, frame due and transferred: update_frame scales the frame and
\* calls write_blocking, whose error is logged and dropped (154-170); the
\* strip latches the bytes of a write that succeeded
UpdateWrite(write_ok) ==
    /\ elapsed >= FRAME_INTERVAL
    /\ NeedsTransfer(EffectFrame)
    /\ elapsed' = 0
    /\ write_seq' = 1 - write_seq
    /\ last_write' = IF write_ok THEN "ok" ELSE "err"
    /\ strip' = IF write_ok THEN ScaleFrame(EffectFrame, brightness)
                ELSE strip
    /\ prev_frame' = StoredFrame(EffectFrame)
    /\ needs_update' = FALSE
    /\ ctl_last' = "written"
    /\ UNCHANGED << other_vars, fx_vars, rb_vars, brightness, color,
                    effect, speed, tick >>

BrightnessLevels == {500, 501, 1500}

SpeedInputs == {0, DEFAULT_SPEED, 255}

CommandStep ==
    \/ \E level \in BrightnessLevels : SetBrightness(level)
    \/ \E c \in Colors : SetColor(c)
    \/ \E e \in EffectTypes : SetEffect(e)
    \/ \E s \in SpeedInputs : SetSpeed(s)

UpdateStep ==
    \/ UpdateEarly
    \/ UpdateSkip
    \/ \E write_ok \in BOOLEAN : UpdateWrite(write_ok)

\* led_task applying commands between calls of update while the timer runs
NextController == CommandStep \/ TimerAdvance \/ UpdateStep

----------------------------------------------------------------------------
(* StaticEffect: effect.rs 47-75 and effects/static_effect.rs 10-40 *)

\* the two revisions of StaticEffect in the repository
StaticVariants == {"effect", "static_effect"}

FxColors == {Black, Rgb(255, 0, 0), Rgb(0, 0, 255)}

\* StaticEffect::new(color) of the given revision, over a buffer whose
\* pixels hold whatever the previous effect left
StaticNew(variant, c, buffer) ==
    /\ fx_variant = variant
    /\ fx_color = c
    /\ fx_buffer = buffer
    /\ fx_last = "new"
    /\ fx_returned = "unit"

InitStatic == StaticNew("effect", Black, Fill(Black))

\* update: effect.rs 60-62 returns false and draws nothing;
\* static_effect.rs 21-27 fills the buffer and returns None
StaticUpdate ==
    /\ IF fx_variant = "effect"
       THEN fx_returned' = "false" /\ UNCHANGED fx_buffer
       ELSE fx_returned' = "None" /\ fx_buffer' = Fill(fx_color)
    /\ fx_last' = "update"
    /\ UNCHANGED << other_vars, ctl_vars, rb_vars, fx_variant, fx_color >>

\* render (effect.rs 64-66): buffer.fill(self.color)
StaticRenderFirstPixel ==
    /\ fx_variant = "effect"
    /\ fx_buffer' = [fx_buffer EXCEPT ![1] = fx_color]
    /\ fx_last' = "render"
    /\ fx_returned' = "unit"
    /\ UNCHANGED << other_vars, ctl_vars, rb_vars, fx_variant, fx_color >>
StaticRender ==
    /\ fx_variant = "effect"
    /\ fx_buffer' = Fill(fx_color)
    /\ fx_last' = "render"
    /\ fx_returned' = "unit"
    /\ UNCHANGED << other_vars, ctl_vars, rb_vars, fx_variant, fx_color >>

\* set_color: effect.rs 68-74 stores a different color and returns whether
\* it did; static_effect.rs 29-31 stores the color and returns nothing
StaticSetColor(c) ==
    /\ IF fx_variant = "effect"
       THEN IF fx_color # c
            THEN fx_color' = c /\ fx_returned' = "true"
            ELSE fx_color' = fx_color /\ fx_returned' = "false"
       ELSE fx_color' = c /\ fx_returned' = "unit"
    /\ fx_last' = "set_color"
    /\ UNCHANGED << other_vars, ctl_vars, rb_vars, fx_variant, fx_buffer >>

NextStatic ==
    \/ StaticUpdate
    \/ StaticRender
    \/ \E c \in FxColors : StaticSetColor(c)

----------------------------------------------------------------------------
(* RainbowEffect (effects/rainbow_effect.rs) *)

\* Times are in model units of 1 ms (the code's are microseconds), hue
\* speeds in units of 0.1 degree per second and hues in units of 0.0001
\* degree, so that hue = speed * time without rescaling.
MaxNow == 12000
MaxSpeedChanges == 2

HUE_TURN == 3600000
MIN_HUE_SPEED == 100
MAX_HUE_SPEED == 3600
TARGET_FRAME_TIME == 33

RbSpeeds == {1, DEFAULT_SPEED, 255}

RbDurations == {900, 5000}

\* hue_speed (29-33): min_speed + speed / 255 * (max_speed - min_speed)
HueSpeed(s) == MIN_HUE_SPEED + (s * (MAX_HUE_SPEED - MIN_HUE_SPEED)) \div 255

\* (self.hue_speed() * elapsed_sec) % 360.0 (43-44, 64-65).  A negative
\* start stands for the u64 that a wrapped subtraction stored, 2^64 + start;
\* subtracting it from now wraps again, to now - start.
HueOffset(s, start, now) == (HueSpeed(s) * (now - start)) % HUE_TURN

\* no frame was computed yet: update has not anchored start_time
NoHue == -1

\* the hue update computes for pixel 0 at time now (38-47)
HueShown(s, start, now) ==
    IF start = 0 THEN 0 ELSE HueOffset(s, start, now)

\* RainbowEffect::new(speed) (17-27), created when the timer shows now
RainbowNew(s, now) ==
    /\ rb_speed = Clamp(s, 1, 255)
    /\ rb_start_time = 0
    /\ rb_now = now
    /\ rb_hue_before = NoHue
    /\ rb_last = "new"
    /\ rb_panicked = FALSE
    /\ rb_changes = 0

InitRainbow == RainbowNew(DEFAULT_SPEED, 0)

\* the timer runs on
RainbowAdvance(d) ==
    /\ ~rb_panicked
    /\ rb_now + d <= MaxNow
    /\ rb_now' = rb_now + d
    /\ rb_last' = "advance"
    /\ UNCHANGED << other_vars, ctl_vars, fx_vars, rb_speed, rb_start_time,
                    rb_hue_before, rb_panicked, rb_changes >>

\* update (37-57): the first call anchors start_time
RainbowUpdate ==
    /\ ~rb_panicked
    /\ rb_start_time' = IF rb_start_time = 0 THEN rb_now ELSE rb_start_time
    /\ rb_last' = "update"
    /\ UNCHANGED << other_vars, ctl_vars, fx_vars, rb_speed, rb_now,
                    rb_hue_before, rb_panicked, rb_changes >>

\* set_speed (59-72).  now_us - (time_to_current_hue * 1_000_000.0) as u64
\* underflows when the time to the current hue at the new speed is longer
\* than the timer has run: a build with overflow checks panics, one without
\* stores the wrapped difference.
RainbowSetSpeed(s, checked) ==
    /\ ~rb_panicked
    /\ rb_changes < MaxSpeedChanges
    /\ rb_changes' = rb_changes + 1
    /\ LET new_speed == Clamp(s, 1, 255)
           current_hue == HueOffset(rb_speed, rb_start_time, rb_now)
           time_to_current_hue == current_hue \div HueSpeed(new_speed)
       IN  /\ rb_hue_before' = IF rb_start_time = 0 THEN NoHue
                              ELSE HueOffset(rb_speed, rb_start_time, rb_now)
           /\ rb_speed' = new_speed
           /\ IF rb_speed = new_speed
              THEN UNCHANGED << rb_start_time, rb_panicked >>
              ELSE IF time_to_current_hue > rb_now /\ checked
              THEN rb_panicked' = TRUE /\ UNCHANGED rb_start_time
              ELSE /\ rb_start_time' = rb_now - time_to_current_hue
                   /\ UNCHANGED rb_panicked
    /\ rb_last' = "set_speed"
    /\ UNCHANGED << other_vars, ctl_vars, fx_vars, rb_now >>
NextRainbow ==
    \/ \E d \in RbDurations : RainbowAdvance(d)
    \/ RainbowUpdate
    \/ \E s \in RbSpeeds, checked \in BOOLEAN : RainbowSetSpeed(s, checked)

----------------------------------------------------------------------------
(* Audio-reactive effects: what they share (effects/gravimeter_effect.rs,  *)
(* radialpulse_effect.rs, vu_meter_effect.rs)                              *)
(*                                                                         *)
(* Levels, brightness and hue are in FIX units per 1.0; positions, radii   *)
(* and widths in FIX units per pixel; times in microseconds, and the       *)
(* clamped delta in seconds in FIX units, that is in milliseconds.         *)

\* pixels of the strip a VuMeterEffect or RadialPulseEffect is constructed
\* for, and of the longer one a GravimeterEffect is constructed for
ReactiveLeds == 6
GravLeds == 20
\* update_audio calls explored on one effect
MaxUpdates == 260
\* after the first call, FreeUpdates calls take arbitrary inputs; later
\* calls repeat the inputs of the last one
FreeUpdates == 2

\* 1_000_000 / 60
TARGET_FRAME_TIME_US == 16666
HISTORY_LEN == 6

ReactiveEffects == {"VuMeter", "Gravimeter", "RadialPulse"}

\* speed as the constructors clamp it (1..255)
ReSpeeds == {1, 255}

\* AudioData as update_audio reads it
AudioData(v, b, m, t) == [volume |-> v, bass |-> b, mid |-> m, treble |-> t]

Silence == AudioData(0, 0, 0, 0)
Soft == AudioData(500, 500, 0, 0)
Loud == AudioData(FIX, FIX, FIX, FIX)

AudioInputs == {Silence, Soft, Loud}

\* microseconds between two update_audio calls of a caller: one that calls
\* again at once and one that waits for the frame time returned
TimeSteps == {1000, TARGET_FRAME_TIME_US}

\* the timer when the effect is constructed
ReBootTime == 1000

\* what the previously active effect left in the buffer
LeftOver(num_leds) == [i \in 1..num_leds |-> Rgb(200, 40, 0)]

\* f32 as u8 saturates
AsU8(x) == Clamp(x, 0, 255)

\* (x * 255.0) as u8 for x in FIX units
Channel(x) == AsU8(TruncDiv(x * 255, FIX))

\* (c as f32 * level) as u8 per channel
Dim(c, level) ==
    Rgb(AsU8(TruncDiv(c.r * level, FIX)), AsU8(TruncDiv(c.g * level, FIX)),
        AsU8(TruncDiv(c.b * level, FIX)))

\* u8::saturating_add per channel
SatAdd(p, c) ==
    Rgb(AsU8(p.r + c.r), AsU8(p.g + c.g), AsU8(p.b + c.b))

\* u64::saturating_sub
SatSub(a, b) == IF a >= b THEN a - b ELSE 0

RECURSIVE MaxOf(_, _)
\* history.iter().copied().fold(0.0f32, f32::max), over the first n entries
MaxOf(h, n) == IF n = 0 THEN 0 ELSE Max(h[n], MaxOf(h, n - 1))

\* history.iter().sum::<f32>() / history.len() as f32
Average(h) == TruncDiv(SumSeq(h), Len(h))

ZeroHistory == [i \in 1..HISTORY_LEN |-> 0]

\* one spawn request as an observer sees it: was the collection full, and
\* did the request leave it as it was
SpawnRecord(before, after, cap) ==
    [full |-> Len(before) >= cap, same |-> after = before]

----------------------------------------------------------------------------
(* GravimeterEffect (effects/gravimeter_effect.rs) *)

GRAV_CAP == 16
SPAWN_INTERVAL_US == 60000
GRAV_DECAY == 988
GRAV_MIN_BRIGHTNESS == 8

\* x.powf(0.8) for x in 0..1: exact at the tenths, linear in between
Pow08Table == << 0, 158, 276, 382, 480, 574, 665, 752, 837, 919, 1000 >>

Pow08(x) ==
    LET k == x \div 100
        r == x % 100
    IN  IF k >= 10 THEN FIX
        ELSE Pow08Table[k + 1]
             + ((Pow08Table[k + 2] - Pow08Table[k + 1]) * r) \div 100

\* GravimeterEffect::new (46-64)
GravimeterNew(s) ==
    [num_leds |-> GravLeds, speed |-> Clamp(s, 1, 255),
     particles |-> << >>, last_spawn_time |-> 0, last_update |-> 0,
     bass_history |-> ZeroHistory, mid_history |-> ZeroHistory,
     treble_history |-> ZeroHistory, history_idx |-> 0,
     smoothed_bass |-> 0, smoothed_mid |-> 0, smoothed_treble |-> 0]

\* speed_to_gravity (66-68)
SpeedToGravity(s) == 80 + FMul((s * FIX) \div 255, 350)

\* hsv_to_rgb (118-140)
GravHsvToRgb(h, s, v) ==
    LET h6 == Clamp(h * 6, 0, 6 * FIX)
        i == (h6 \div FIX) % 6
        f == h6 - i * FIX
        p == FMul(v, FIX - s)
        q == FMul(v, FIX - FMul(f, s))
        t == FMul(v, FIX - FMul(FIX - f, s))
    IN  CASE i = 0 -> Rgb(Channel(v), Channel(t), Channel(p))
          [] i = 1 -> Rgb(Channel(q), Channel(v), Channel(p))
          [] i = 2 -> Rgb(Channel(p), Channel(v), Channel(t))
          [] i = 3 -> Rgb(Channel(p), Channel(q), Channel(v))
          [] i = 4 -> Rgb(Channel(t), Channel(p), Channel(v))
          [] OTHER -> Rgb(Channel(v), Channel(p), Channel(q))

\* the Particle spawn_particle pushes (94-115)
NewParticle(intensity, freq_type) ==
    LET intensity_clamped == Clamp(intensity, 0, FIX)
        base_velocity == CASE freq_type = "Bass" -> 250
                           [] freq_type = "Mid" -> 550
                           [] freq_type = "Treble" -> 1000
        velocity_boost == FMul(Pow08(intensity_clamped), 2800)
    IN  [position |-> 0,
         velocity |-> base_velocity + velocity_boost,
         brightness |-> 550 + FMul(intensity_clamped, 450),
         color |-> GravHsvToRgb(FMul(intensity_clamped, 850), 950, FIX),
         frequency_type |-> freq_type]

\* spawn_particle (89-116): nothing is pushed into a full vector
SpawnParticleUnchecked(particles, intensity, freq_type) ==
    Append(particles, NewParticle(intensity, freq_type))
SpawnParticle(particles, intensity, freq_type) ==
    IF Len(particles) >= GRAV_CAP
    THEN particles
    ELSE Append(particles, NewParticle(intensity, freq_type))

\* detect_peak (142-153)
GravDetectPeakNoFloor(current, history) ==
    IF Len(history) = 0 THEN FALSE
    ELSE \/ current > FMul(Average(history), 1300)
         \/ (current > FMul(MaxOf(history, Len(history)), 900)
                /\ current > 200)
GravDetectPeak(current, history) ==
    IF Len(history) = 0 THEN FALSE
    ELSE LET avg == Average(history)
             max == MaxOf(history, Len(history))
             threshold == FMul(avg, 1300)
             min_level == 120
         IN  (current > threshold /\ current > min_level)
             \/ (current > FMul(max, 900) /\ current > 200)

\* smooth_value (155-157)
GravSmoothValue(current, target) == FMul(current, 700) + FMul(target, 300)

\* the closure of retain_mut (75-80): one particle moved and dimmed
MoveParticle(p, gravity, delta_scaled) ==
    LET velocity == IF delta_scaled > 0
                    THEN p.velocity + FMul(gravity, delta_scaled)
                    ELSE p.velocity
        position == IF delta_scaled > 0
                    THEN p.position + FMul(velocity, delta_scaled)
                    ELSE p.position
    IN  [p EXCEPT !.velocity = velocity, !.position = position,
                  !.brightness = FMul(p.brightness, GRAV_DECAY)]

\* what retain_mut keeps (82-85)
ParticleKeptWhileDark(p) ==
    /\ p.position >= -2 * FIX
    /\ p.position < (GravLeds + 2) * FIX
ParticleKept(p) ==
    /\ p.position >= -2 * FIX
    /\ p.position < (GravLeds + 2) * FIX
    /\ p.brightness > GRAV_MIN_BRIGHTNESS

\* update_physics (70-87): every particle as the closure leaves it
MovedParticles(particles, delta_time_s, s) ==
    LET gravity == SpeedToGravity(s)
        delta_scaled == Min(delta_time_s * 60, 2 * FIX)
    IN  [k \in 1..Len(particles) |->
            MoveParticle(particles[k], gravity, delta_scaled)]

\* update_physics (70-87): the particles retain_mut keeps
UpdatePhysics(particles, delta_time_s, s) ==
    SelectSeq(MovedParticles(particles, delta_time_s, s), ParticleKept)

\* the particles retain_mut drops, as they were when dropped
DroppedParticles(particles, delta_time_s, s) ==
    LET Dropped(p) == ~ParticleKept(p)
    IN  SelectSeq(MovedParticles(particles, delta_time_s, s), Dropped)

\* lines 212-216
FadeBuffer(buffer, fade_factor) ==
    [i \in 1..Len(buffer) |-> Dim(buffer[i], fade_factor)]

\* lines 219-251: one particle added onto the buffer
DrawParticle(buffer, p) ==
    LET pos_int == TruncDiv(p.position, FIX)
        frac == p.position - pos_int * FIX
        level == Clamp(p.brightness, 0, FIX)
        main_brightness == FMul(level, FIX - FMul(frac, 500))
        sub_brightness == FMul(FMul(level, frac), 600)
        main == IF pos_int >= 0 /\ pos_int < Len(buffer)
                THEN [buffer EXCEPT ![pos_int + 1] =
                         SatAdd(@, Dim(p.color, main_brightness))]
                ELSE buffer
    IN  IF pos_int + 1 >= 0 /\ pos_int + 1 < Len(buffer) /\ frac > 300
        THEN [main EXCEPT ![pos_int + 2] =
                 SatAdd(@, Dim(p.color, sub_brightness))]
        ELSE main

RECURSIVE DrawParticles(_, _, _)
\* the loop of line 218 over the first n particles
DrawParticles(buffer, particles, n) ==
    IF n = 0 THEN buffer
    ELSE DrawParticle(DrawParticles(buffer, particles, n - 1), particles[n])

\* update_audio past its first call (171-254): the struct, the buffer and
\* the spawn requests made
GravUpdated(g, now_us, audio, buffer) ==
    LET delta_time_us == SatSub(now_us, g.last_update)
        delta_time_s == Clamp(delta_time_us \div 1000, 1, 100)
        smoothed_bass == GravSmoothValue(g.smoothed_bass, audio.bass)
        smoothed_mid == GravSmoothValue(g.smoothed_mid, audio.mid)
        smoothed_treble == GravSmoothValue(g.smoothed_treble, audio.treble)
        bass_history ==
            [g.bass_history EXCEPT ![g.history_idx + 1] = smoothed_bass]
        mid_history ==
            [g.mid_history EXCEPT ![g.history_idx + 1] = smoothed_mid]
        treble_history ==
            [g.treble_history EXCEPT ![g.history_idx + 1] = smoothed_treble]
        time_since_spawn == SatSub(now_us, g.last_spawn_time)
        should_check_spawn == time_since_spawn > SPAWN_INTERVAL_US
        bass_peak == GravDetectPeak(smoothed_bass, bass_history)
        mid_spawn == should_check_spawn /\ smoothed_mid > 200
        treble_spawn ==
            /\ smoothed_treble > 250
            /\ (GravDetectPeak(smoothed_treble, treble_history)
                \/ smoothed_treble > 400)
        p0 == g.particles
        p1 == IF bass_peak THEN SpawnParticle(p0, smoothed_bass, "Bass")
              ELSE p0
        p2 == IF mid_spawn THEN SpawnParticle(p1, smoothed_mid, "Mid")
              ELSE p1
        p3 == IF treble_spawn
              THEN SpawnParticle(p2, smoothed_treble, "Treble")
              ELSE p2
        particles == UpdatePhysics(p3, delta_time_s, g.speed)
        fade_factor == IF Len(particles) > 12 THEN 880 ELSE 920
    IN  [effect |->
            [g EXCEPT !.last_update = now_us,
                      !.smoothed_bass = smoothed_bass,
                      !.smoothed_mid = smoothed_mid,
                      !.smoothed_treble = smoothed_treble,
                      !.bass_history = bass_history,
                      !.mid_history = mid_history,
                      !.treble_history = treble_history,
                      !.history_idx = (g.history_idx + 1) % HISTORY_LEN,
                      !.last_spawn_time =
                          IF bass_peak /\ should_check_spawn
                          THEN now_us ELSE g.last_spawn_time,
                      !.particles = particles],
         buffer |-> DrawParticles(FadeBuffer(buffer, fade_factor),
                                  particles, Len(particles)),
         removed |-> DroppedParticles(p3, delta_time_s, g.speed),
         spawns |->
            (IF bass_peak THEN << SpawnRecord(p0, p1, GRAV_CAP) >> ELSE << >>)
            \o (IF mid_spawn THEN << SpawnRecord(p1, p2, GRAV_CAP) >>
                ELSE << >>)
            \o (IF treble_spawn THEN << SpawnRecord(p2, p3, GRAV_CAP) >>
                ELSE << >>)]

----------------------------------------------------------------------------
(* RadialPulseEffect (effects/radialpulse_effect.rs) *)

PULSE_CAP == 20
PULSE_DECAY == 950
PULSE_MIN_BRIGHTNESS == 10

\* RadialPulseEffect::new (42-59)
RadialPulseNew(s) ==
    [num_leds |-> ReactiveLeds, speed |-> Clamp(s, 1, 255),
     pulses |-> << >>, last_update |-> 0,
     smoothed_bass |-> 0, smoothed_mid |-> 0, smoothed_treble |-> 0,
     smoothed_intensity |-> 0,
     bass_history |-> ZeroHistory, mid_history |-> ZeroHistory,
     treble_history |-> ZeroHistory, history_idx |-> 0]

\* smooth_value (61-63)
PulseSmoothValue(current, target, factor) ==
    current + FMul(target - current, Clamp(factor, 0, FIX))

\* detect_peak (65-73)
PulseDetectPeak(current, history) ==
    IF Len(history) = 0 THEN FALSE
    ELSE LET avg == Average(history)
             max == MaxOf(history, Len(history))
         IN  (current > FMul(avg, 1300) /\ current > 150)
             \/ (current > 800 /\ current > FMul(max, 900))

\* hsv_to_rgb (92-116): the hue keeps its fractional part
PulseHsvToRgb(h, s, v) ==
    LET h6 == (h % FIX) * 6
        i == h6 \div FIX
        f == h6 - i * FIX
        p == FMul(v, FIX - s)
        q == FMul(v, FIX - FMul(f, s))
        t == FMul(v, FIX - FMul(FIX - f, s))
    IN  CASE i = 0 -> Rgb(Channel(v), Channel(t), Channel(p))
          [] i = 1 -> Rgb(Channel(q), Channel(v), Channel(p))
          [] i = 2 -> Rgb(Channel(p), Channel(v), Channel(t))
          [] i = 3 -> Rgb(Channel(p), Channel(q), Channel(v))
          [] i = 4 -> Rgb(Channel(t), Channel(p), Channel(v))
          [] OTHER -> Rgb(Channel(v), Channel(p), Channel(q))

\* get_pulse_color (75-90)
GetPulseColor(freq_type, intensity) ==
    LET val == Clamp(intensity, 0, FIX)
    IN  CASE freq_type = "Bass" ->
                PulseHsvToRgb(950 - FMul(val, 150), FIX, FIX)
          [] freq_type = "Mid" ->
                PulseHsvToRgb(50 + FMul(val, 250), FIX, FIX)
          [] freq_type = "Treble" ->
                PulseHsvToRgb(500 + FMul(val, 150),
                              Clamp(FIX - FMul(val, 500), 0, FIX), FIX)

\* the Pulse spawn_pulse pushes (121-140)
NewPulse(intensity, freq) ==
    LET base_speed == CASE freq = "Bass" -> 12 * FIX
                        [] freq = "Mid" -> 20 * FIX
                        [] freq = "Treble" -> 35 * FIX
        base_width == CASE freq = "Bass" -> 6 * FIX
                        [] freq = "Mid" -> 4 * FIX
                        [] freq = "Treble" -> 2500
    IN  [radius |-> 0,
         max_radius |-> (ReactiveLeds * FIX * 6) \div 10,
         brightness |-> 600 + FMul(intensity, 400),
         speed |-> base_speed + FMul(intensity, intensity) * 15,
         color |-> GetPulseColor(freq, intensity),
         age |-> 0,
         width |-> base_width + intensity * 3]

\* spawn_pulse (118-141): nothing is pushed into a full vector
SpawnPulseUnchecked(pulses, intensity, freq) ==
    Append(pulses, NewPulse(intensity, freq))
SpawnPulse(pulses, intensity, freq) ==
    IF Len(pulses) >= PULSE_CAP
    THEN pulses
    ELSE Append(pulses, NewPulse(intensity, freq))

\* the closure of retain_mut (194-198): one pulse aged, widened and dimmed
MovePulse(pulse, speed_mult, delta_s) ==
    [pulse EXCEPT !.age = pulse.age + delta_s,
                  !.radius = pulse.radius
                             + FMul(FMul(pulse.speed, speed_mult), delta_s),
                  !.brightness = FMul(pulse.brightness, PULSE_DECAY)]

\* what retain_mut keeps (200)
PulseKept(pulse) ==
    /\ pulse.brightness > PULSE_MIN_BRIGHTNESS
    /\ pulse.radius < (ReactiveLeds * FIX * 3) \div 2

\* x.ceil() for x in FIX units, as a whole number
CeilUnits(x) == -((-x) \div FIX)

\* lines 223-243: what one pulse adds to the pixel at index i
PulseLight(pulse, i, center) ==
    LET pos == i * FIX
        dist_left == Abs(pos - (center - pulse.radius))
        dist_right == Abs(pos - (center + pulse.radius))
        dist == Min(dist_left, dist_right)
    IN  IF dist < pulse.width
        THEN LET x == FIX - FDiv(dist, pulse.width)
                 b == Clamp(FMul(pulse.brightness, FMul(x, x)), 0, FIX)
             IN  IF b > 10 THEN Dim(pulse.color, b) ELSE Black
        ELSE Black

\* lines 215-244: one pulse added onto the buffer
DrawPulse(buffer, pulse) ==
    LET center == (ReactiveLeds * FIX) \div 2
        start_idx == Max((center - pulse.radius - pulse.width) \div FIX, 0)
        end_idx == Min(Max(CeilUnits(center + pulse.radius + pulse.width), 0),
                       ReactiveLeds)
    IN  [k \in 1..Len(buffer) |->
            IF k - 1 >= start_idx /\ k - 1 < end_idx
            THEN SatAdd(buffer[k], PulseLight(pulse, k - 1, center))
            ELSE buffer[k]]

RECURSIVE DrawPulses(_, _, _)
\* the loop of line 213 over the first n pulses
DrawPulses(buffer, pulses, n) ==
    IF n = 0 THEN buffer
    ELSE DrawPulse(DrawPulses(buffer, pulses, n - 1), pulses[n])

\* lines 248-270: the glow on the centre pixel and its two neighbours
CenterGlow(buffer, bass, mid, treble) ==
    LET center_idx == ReactiveLeds \div 2
        glow == Rgb(AsU8(TruncDiv(bass * 255, FIX)),
                    AsU8(TruncDiv(mid * 200, FIX)),
                    AsU8(TruncDiv(treble * 255, FIX)))
        half == Rgb(glow.r \div 2, glow.g \div 2, glow.b \div 2)
    IN  IF center_idx >= Len(buffer) THEN buffer
        ELSE [k \in 1..Len(buffer) |->
                 IF k - 1 = center_idx THEN SatAdd(buffer[k], glow)
                 ELSE IF center_idx >= 1 /\ k - 1 = center_idx - 1
                      THEN SatAdd(buffer[k], half)
                      ELSE IF /\ center_idx + 1 < ReactiveLeds
                              /\ k - 1 = center_idx + 1
                           THEN SatAdd(buffer[k], half)
                           ELSE buffer[k]]

\* update_audio past its first call (155-272): the struct, the buffer and
\* the spawn requests made
PulseUpdated(e, now_us, audio, buffer) ==
    LET delta_us == SatSub(now_us, e.last_update)
        delta_s == Clamp(delta_us \div 1000, 1, 100)
        smoothing == 200
        smoothed_bass == PulseSmoothValue(e.smoothed_bass, audio.bass, smoothing)
        smoothed_mid == PulseSmoothValue(e.smoothed_mid, audio.mid, smoothing)
        smoothed_treble ==
            PulseSmoothValue(e.smoothed_treble, audio.treble, smoothing)
        smoothed_intensity ==
            PulseSmoothValue(e.smoothed_intensity, audio.volume, 100)
        bass_history ==
            [e.bass_history EXCEPT ![e.history_idx + 1] = smoothed_bass]
        mid_history ==
            [e.mid_history EXCEPT ![e.history_idx + 1] = smoothed_mid]
        treble_history ==
            [e.treble_history EXCEPT ![e.history_idx + 1] = smoothed_treble]
        bass_peak == PulseDetectPeak(smoothed_bass, bass_history)
        p0 == e.pulses
        p1 == IF bass_peak THEN SpawnPulse(p0, smoothed_bass, "Bass") ELSE p0
        mid_spawn == /\ smoothed_mid > 250
                     /\ Len(p1) < PULSE_CAP
                     /\ now_us % 3 = 0
        p2 == IF mid_spawn THEN SpawnPulse(p1, smoothed_mid, "Mid") ELSE p1
        treble_spawn == smoothed_treble > 300
        p3 == IF treble_spawn THEN SpawnPulse(p2, smoothed_treble, "Treble")
              ELSE p2
        speed_mult == (e.speed * FIX) \div 128
        moved == [k \in 1..Len(p3) |-> MovePulse(p3[k], speed_mult, delta_s)]
        pulses == SelectSeq(moved, PulseKept)
        Dropped(pulse) == ~PulseKept(pulse)
    IN  [effect |->
            [e EXCEPT !.last_update = now_us,
                      !.smoothed_bass = smoothed_bass,
                      !.smoothed_mid = smoothed_mid,
                      !.smoothed_treble = smoothed_treble,
                      !.smoothed_intensity = smoothed_intensity,
                      !.bass_history = bass_history,
                      !.mid_history = mid_history,
                      !.treble_history = treble_history,
                      !.history_idx = (e.history_idx + 1) % HISTORY_LEN,
                      !.pulses = pulses],
         buffer |-> CenterGlow(DrawPulses(FadeBuffer(buffer, 850), pulses,
                                          Len(pulses)),
                               smoothed_bass, smoothed_mid, smoothed_treble),
         removed |-> SelectSeq(moved, Dropped),
         spawns |->
            (IF bass_peak THEN << SpawnRecord(p0, p1, PULSE_CAP) >>
             ELSE << >>)
            \o (IF mid_spawn THEN << SpawnRecord(p1, p2, PULSE_CAP) >>
                ELSE << >>)
            \o (IF treble_spawn THEN << SpawnRecord(p2, p3, PULSE_CAP) >>
                ELSE << >>)]

----------------------------------------------------------------------------
(* VuMeterEffect (effects/vu_meter_effect.rs) *)

PEAK_HOLD_DURATION_US == 450000
PEAK_GRAVITY == 5

\* VuMeterEffect::new (24-37)
VuMeterNew(s) ==
    [num_leds |-> ReactiveLeds, speed |-> Clamp(s, 1, 255),
     current_level |-> 0, peak_level |-> 0, peak_hold_time |-> 0,
     last_update_time |-> 0]

\* level_to_color (40-61)
LevelToColor(pos) ==
    IF pos < 500
    THEN Rgb(AsU8(TruncDiv(255 * (pos * 2), FIX)), 255, 0)
    ELSE Rgb(255, AsU8(TruncDiv(255 * (FIX - (pos - 500) * 2), FIX)), 0)

\* lines 79-88: the bar follows the volume, faster up than down
VuCurrentLevel(current_level, volume, s) ==
    LET target_level == Clamp(volume, 0, FIX)
        s_norm == (s * FIX) \div 255
        attack == 200 + FMul(s_norm, 600)
        release == 50 + FMul(s_norm, 150)
        smoothing == IF target_level > current_level THEN attack ELSE release
    IN  current_level + FMul(target_level - current_level, smoothing)

\* lines 91-109: the peak marker and the time it was pushed last
VuPeakFalling(v, current_level, now_us) ==
    LET s_norm == (v.speed * FIX) \div 255
        fallen == v.peak_level - FMul(PEAK_GRAVITY, FIX + s_norm)
    IN  IF current_level >= v.peak_level
        THEN [peak_level |-> current_level, peak_hold_time |-> now_us]
        ELSE [peak_level |-> IF fallen < current_level THEN current_level
                             ELSE fallen,
              peak_hold_time |-> v.peak_hold_time]
VuPeak(v, current_level, now_us) ==
    LET s_norm == (v.speed * FIX) \div 255
        time_held == SatSub(now_us, v.peak_hold_time)
        fallen == v.peak_level - FMul(PEAK_GRAVITY, FIX + s_norm)
    IN  IF current_level >= v.peak_level
        THEN [peak_level |-> current_level, peak_hold_time |-> now_us]
        ELSE IF time_held > PEAK_HOLD_DURATION_US
             THEN [peak_level |-> IF fallen < current_level THEN current_level
                                  ELSE fallen,
                   peak_hold_time |-> v.peak_hold_time]
             ELSE [peak_level |-> v.peak_level,
                   peak_hold_time |-> v.peak_hold_time]

\* (x * len).round() as usize for x in FIX units, x >= 0
RoundUnits(x) == (x + FIX \div 2) \div FIX

\* lines 113-133: the buffer is cleared, then bar and peak are drawn
VuRender(current_level, peak_level) ==
    LET bar_len == Max(RoundUnits(current_level * ReactiveLeds), 0)
        peak_idx == Max((peak_level * ReactiveLeds) \div FIX, 0)
    IN  [k \in 1..ReactiveLeds |->
            IF peak_idx < ReactiveLeds /\ k - 1 = peak_idx
            THEN IF peak_idx < bar_len THEN Rgb(255, 255, 255)
                 ELSE Rgb(0, 255, 255)
            ELSE IF k - 1 < Min(bar_len, ReactiveLeds)
                 THEN LevelToColor(((k - 1) * FIX) \div ReactiveLeds)
                 ELSE Black]

\* update_audio past its first call (75-135)
VuUpdated(v, now_us, audio) ==
    LET current_level == VuCurrentLevel(v.current_level, audio.volume, v.speed)
        peak == VuPeak(v, current_level, now_us)
    IN  [effect |-> [v EXCEPT !.last_update_time = now_us,
                              !.current_level = current_level,
                              !.peak_level = peak.peak_level,
                              !.peak_hold_time = peak.peak_hold_time],
         buffer |-> VuRender(current_level, peak.peak_level)]

----------------------------------------------------------------------------
(* update_audio called on the effect the controller holds *)

\* the constructors; the buffer keeps what was shown before
ReactiveNew(e, s, dt) ==
    /\ re_effect = e
    /\ re_now = ReBootTime
    /\ re_buffer = LeftOver(IF e = "Gravimeter" THEN GravLeds
                             ELSE ReactiveLeds)
    /\ gravimeter = GravimeterNew(s)
    /\ radial_pulse = RadialPulseNew(s)
    /\ vu_meter = VuMeterNew(s)
    /\ re_last = "new"
    /\ re_audio = Silence
    /\ re_dt = dt
    /\ re_calls = 0
    /\ re_written = {}
    /\ spawn_trace = << >>
    /\ re_removed = << >>
    /\ vu_before = VuMeterNew(s)

InitReactive == ReactiveNew("VuMeter", DEFAULT_SPEED, TARGET_FRAME_TIME_US)

\* the inputs of one call, re_dt after the call before: the first call
\* reads no audio; the next FreeUpdates calls take any input; later calls
\* repeat the last one
ReactiveCall(audio) ==
    /\ re_calls < MaxUpdates
    /\ CASE re_calls = 0 -> audio = Silence
         [] re_calls \in 1..FreeUpdates -> TRUE
         [] OTHER -> audio = re_audio
    /\ re_now' = re_now + re_dt
    /\ re_audio' = audio
    /\ re_calls' = re_calls + 1
    /\ UNCHANGED << program_vars, ctl_vars, fx_vars, rb_vars, dp_vars,
                    task_vars, feature_vars, re_effect, re_dt >>

AllPixels == DOMAIN re_buffer

\* GravimeterEffect::update_audio (165-255)
GravUpdateAudio(audio) ==
    /\ re_effect = "Gravimeter"
    /\ ReactiveCall(audio)
    /\ IF gravimeter.last_update = 0
       THEN /\ gravimeter' = [gravimeter EXCEPT !.last_update = re_now']
            /\ re_last' = "first"
            /\ re_written' = {}
            /\ spawn_trace' = << >>
            /\ re_removed' = << >>
            /\ UNCHANGED re_buffer
       ELSE LET u == GravUpdated(gravimeter, re_now', audio, re_buffer)
            IN  /\ gravimeter' = u.effect
                /\ re_buffer' = u.buffer
                /\ spawn_trace' = u.spawns
                /\ re_removed' = u.removed
                /\ re_last' = "update"
                /\ re_written' = AllPixels
    /\ UNCHANGED << radial_pulse, vu_meter, vu_before >>

\* RadialPulseEffect::update_audio (149-273)
PulseUpdateAudio(audio) ==
    /\ re_effect = "RadialPulse"
    /\ ReactiveCall(audio)
    /\ IF radial_pulse.last_update = 0
       THEN /\ radial_pulse' = [radial_pulse EXCEPT !.last_update = re_now']
            /\ re_last' = "first"
            /\ re_written' = {}
            /\ spawn_trace' = << >>
            /\ re_removed' = << >>
            /\ UNCHANGED re_buffer
       ELSE LET u == PulseUpdated(radial_pulse, re_now', audio, re_buffer)
            IN  /\ radial_pulse' = u.effect
                /\ re_buffer' = u.buffer
                /\ spawn_trace' = u.spawns
                /\ re_removed' = u.removed
                /\ re_last' = "update"
                /\ re_written' = AllPixels
    /\ UNCHANGED << gravimeter, vu_meter, vu_before >>

\* VuMeterEffect::update_audio (67-136)
VuUpdateAudio(audio) ==
    /\ re_effect = "VuMeter"
    /\ ReactiveCall(audio)
    /\ vu_before' = vu_meter
    /\ IF vu_meter.last_update_time = 0
       THEN /\ vu_meter' = [vu_meter EXCEPT !.last_update_time = re_now']
            /\ re_last' = "first"
            /\ re_written' = {}
            /\ UNCHANGED re_buffer
       ELSE LET u == VuUpdated(vu_meter, re_now', audio)
            IN  /\ vu_meter' = u.effect
                /\ re_buffer' = u.buffer
                /\ re_last' = "update"
                /\ re_written' = AllPixels
    /\ UNCHANGED << gravimeter, radial_pulse, spawn_trace, re_removed >>

NextReactive ==
    \E audio \in AudioInputs :
        \/ GravUpdateAudio(audio)
        \/ PulseUpdateAudio(audio)
        \/ VuUpdateAudio(audio)

----------------------------------------------------------------------------
(* detect_peak of both effects called with the same arguments *)

\* levels around the floors and factors of the two predicates
PeakLevels == {0, 100, 120, 130, 150, 160, 200, 210, 800, 850, FIX}

\* entries of the histories tried
HistoryLevels == {0, 150, 900}

NoResult == [called |-> FALSE, gravimeter |-> FALSE, radial_pulse |-> FALSE]

InitDetectPeak ==
    /\ dp_current = 0
    /\ dp_history = ZeroHistory
    /\ dp_result = NoResult

\* GravimeterEffect::detect_peak and RadialPulseEffect::detect_peak
CallDetectPeak ==
    /\ ~dp_result.called
    /\ dp_result' =
          [called |-> TRUE,
           gravimeter |-> GravDetectPeak(dp_current, dp_history),
           radial_pulse |-> PulseDetectPeak(dp_current, dp_history)]
    /\ UNCHANGED << program_vars, ctl_vars, fx_vars, rb_vars, reactive_vars,
                    task_vars, feature_vars, dp_current, dp_history >>

NextDetectPeak == CallDetectPeak

----------------------------------------------------------------------------
(* ScannerEffect (effect.rs 373-449) *)

\* everything but the effects of effect.rs and effects/blink_effect.rs, the
\* scheduler and the power state
base_vars == << program_vars, ctl_vars, fx_vars, rb_vars, reactive_vars,
               dp_vars, task_vars >>

\* strip lengths tried, and calls made on one effect
MaxScanLeds == 3
MaxScanCalls == 10

\* a usize is kept as the two's-complement reading of its bits, because
\* usize::MAX is beyond the integers of the model checker: -1 stands for
\* usize::MAX, -2 for usize::MAX - 1, and values on the strip for themselves
UsizeLess(a, b) == IF (a >= 0) = (b >= 0) THEN a < b ELSE b < 0

\* `x as i16`: the low 16 bits, signed
AsI16(x) == ((x + 32768) % 65536) - 32768

\* map_speed_to_interval (effect.rs 396-400)
ScannerInterval(spd) ==
    LET inverted_speed == 256 - Max(spd, 1)
        interval_ms == (inverted_speed * 100) \div 254 + 2
    IN  interval_ms * 1000

\* ScannerEffect::new (383-393)
ScannerNew(c, spd, num_leds) ==
    [color |-> c, num_leds |-> num_leds, position |-> 0, direction |-> 1,
     time_accumulator |-> 0, pixel_interval_us |-> ScannerInterval(spd)]

\* the direction after the test at the two ends (412-422)
ScannerTurned(sc) ==
    IF sc.direction > 0
    THEN IF ~UsizeLess(sc.position, sc.num_leds - 1) THEN -1 ELSE sc.direction
    ELSE IF sc.position = 0 THEN 1 ELSE sc.direction

\* update (405-429): the effect after it, and what it returns
ScannerUpdated(sc, delta_us) ==
    LET acc == sc.time_accumulator + delta_us
    IN  IF acc >= sc.pixel_interval_us
        THEN [effect |->
                 [sc EXCEPT !.time_accumulator = acc - sc.pixel_interval_us,
                            !.direction = ScannerTurned(sc),
                            !.position =
                                AsI16(sc.position) + ScannerTurned(sc)],
              stepped |-> TRUE]
        ELSE [effect |-> [sc EXCEPT !.time_accumulator = acc],
              stepped |-> FALSE]

\* dim_color (654-660)
DimColor(c, scale) ==
    Rgb((c.r * scale) \div 256, (c.g * scale) \div 256,
        (c.b * scale) \div 256)

\* buffer[index] = c, which panics when index is no index of the buffer
ScannerWrite(r, wanted, index, c) ==
    IF r.panicked \/ ~wanted THEN r
    ELSE IF index >= 0 /\ index < Len(r.buffer)
         THEN [r EXCEPT !.buffer[index + 1] = c]
         ELSE [r EXCEPT !.panicked = TRUE]

\* render (431-449) into a buffer of num_leds pixels
ScannerRendered(sc) ==
    LET pos == sc.position
        cleared == [panicked |-> FALSE,
                    buffer |-> [i \in 1..sc.num_leds |-> Black]]
        eye == ScannerWrite(cleared, UsizeLess(pos, sc.num_leds), pos,
                            sc.color)
        inner_dim == DimColor(sc.color, 128)
        left1 == ScannerWrite(eye, pos # 0, pos - 1, inner_dim)
        right1 == ScannerWrite(left1, UsizeLess(pos + 1, sc.num_leds),
                               pos + 1, inner_dim)
        outer_dim == DimColor(sc.color, 64)
        left2 == ScannerWrite(right1, ~UsizeLess(pos, 2), pos - 2, outer_dim)
    IN  ScannerWrite(left2, UsizeLess(pos + 2, sc.num_leds), pos + 2,
                     outer_dim)

ScannerSpeeds == {1, 255}
ScannerDeltas == {1000, 2000}

InitScanner ==
    /\ scanner = ScannerNew(Rgb(255, 0, 0), 255, MaxScanLeds)
    /\ scanner_before = scanner
    /\ scanner_last = "new"
    /\ scanner_stepped = FALSE
    /\ scanner_render = "none"
    /\ scanner_calls = 0

\* a call on the effect; a panic has ended the program
ScannerCall(name) ==
    /\ scanner_calls < MaxScanCalls
    /\ scanner_render # "panic"
    /\ scanner_calls' = scanner_calls + 1
    /\ scanner_before' = scanner
    /\ scanner_last' = name
    /\ UNCHANGED << base_vars, sched_vars, ledsched_vars, blink_vars,
                    wipe_vars >>

ScannerUpdate(delta_us) ==
    /\ ScannerCall("update")
    /\ scanner' = ScannerUpdated(scanner, delta_us).effect
    /\ scanner_stepped' = ScannerUpdated(scanner, delta_us).stepped
    /\ UNCHANGED scanner_render

\* set_speed (456-459)
ScannerSetSpeed(spd) ==
    /\ ScannerCall("set_speed")
    /\ scanner' =
           [scanner EXCEPT !.pixel_interval_us = ScannerInterval(spd)]
    /\ scanner_stepped' = FALSE
    /\ UNCHANGED scanner_render

ScannerRender ==
    /\ ScannerCall("render")
    /\ scanner_render' =
           IF ScannerRendered(scanner).panicked THEN "panic" ELSE "ok"
    /\ scanner_stepped' = FALSE
    /\ UNCHANGED scanner

NextScanner ==
    \/ \E delta_us \in ScannerDeltas : ScannerUpdate(delta_us)
    \/ \E spd \in ScannerSpeeds : ScannerSetSpeed(spd)
    \/ ScannerRender

----------------------------------------------------------------------------
(* LedScheduler (scheduler.rs 169-281) *)

\* heapless::Vec<Schedule, 16>
SCHED_CAP == 16
\* last_check_minute before the first check (0xFFFF)
NEVER_CHECKED == 65535

\* add_schedule calls made on one scheduler
MaxSchedIds == 18
\* schedules added when check_and_execute is looked at
MaxTimed == 2

\* TimeOfDay { hour, minute } and to_minutes (21-23)
TimeOfDay(h, mi) == [hour |-> h, minute |-> mi]
ToMinutes(t) == t.hour * 60 + t.minute

\* [bool; 7], Monday = 0
AllDays == [d \in 0..6 |-> TRUE]
MondayOnly == [d \in 0..6 |-> d = 0]

\* should_trigger (109-125)
ShouldTrigger(sch, current_time, current_day) ==
    /\ sch.enabled
    /\ ~(current_day > 6)
    /\ sch.days[current_day]
    /\ sch.time.hour = current_time.hour
    /\ sch.time.minute = current_time.minute

\* LedScheduler::new (176-182)
SchedulerNew ==
    [schedules |-> << >>, next_id |-> 0, last_check_minute |-> NEVER_CHECKED]

\* heapless Vec::push: the element is appended unless the vector is full
PushFails(v) == Len(v) >= SCHED_CAP

\* the schedules after add_schedule (185-207): the id is taken and next_id
\* advanced before the push, whose failure is the error returned
AddedDroppingOldest(sd, preset, time, days) ==
    LET schedule == [id |-> sd.next_id, enabled |-> TRUE, preset |-> preset,
                     time |-> time, days |-> days]
    IN  [sd EXCEPT !.next_id = sd.next_id + 1,
                   !.schedules = IF PushFails(sd.schedules)
                                 THEN Append(Tail(sd.schedules), schedule)
                                 ELSE Append(sd.schedules, schedule)]
Added(sd, preset, time, days) ==
    LET schedule == [id |-> sd.next_id, enabled |-> TRUE, preset |-> preset,
                     time |-> time, days |-> days]
    IN  [sd EXCEPT !.next_id = sd.next_id + 1,
                   !.schedules = IF PushFails(sd.schedules)
                                 THEN sd.schedules
                                 ELSE Append(sd.schedules, schedule)]

\* iter().position(|s| s.id == id): the first index with the id, 0 for None
PositionOf(v, id) ==
    IF \E i \in 1..Len(v) : v[i].id = id
    THEN CHOOSE i \in 1..Len(v) :
             /\ v[i].id = id
             /\ \A j \in 1..(i - 1) : v[j].id # id
    ELSE 0

\* heapless Vec::swap_remove: the last element takes the place of the
\* removed one
SwapRemove(v, pos) ==
    LET last == v[Len(v)]
        shorter == SubSeq(v, 1, Len(v) - 1)
    IN  IF pos = Len(v) THEN shorter ELSE [shorter EXCEPT ![pos] = last]

\* the first schedule of the list that should trigger, 0 for none (258-272)
FirstTriggered(v, current_time, current_day) ==
    IF \E i \in 1..Len(v) : ShouldTrigger(v[i], current_time, current_day)
    THEN CHOOSE i \in 1..Len(v) :
             /\ ShouldTrigger(v[i], current_time, current_day)
             /\ \A j \in 1..(i - 1) :
                    ~ShouldTrigger(v[j], current_time, current_day)
    ELSE 0

NoReturn == [kind |-> "None", id |-> 0, preset |-> "none"]

InitScheduler ==
    /\ scheduler = SchedulerNew
    /\ sched_before = scheduler
    /\ sched_last = "new"
    /\ sched_ret = NoReturn
    /\ sched_checks = << >>
    /\ sched_issued = << >>

SchedCall(name) ==
    /\ sched_before' = scheduler
    /\ sched_last' = name

\* a call made on the scheduler alone
SchedOnly ==
    UNCHANGED << base_vars, scanner_vars, ledsched_vars, blink_vars,
                 wipe_vars >>

\* add_schedule (185-207)
AddScheduleCall(preset, time, days) ==
    /\ SchedCall("add_schedule")
    /\ scheduler' = Added(scheduler, preset, time, days)
    /\ sched_ret' = IF PushFails(scheduler.schedules)
                    THEN [kind |-> "Err", id |-> 0, preset |-> "none"]
                    ELSE [kind |-> "Ok", id |-> scheduler.next_id,
                          preset |-> "none"]
    /\ sched_issued' = IF PushFails(scheduler.schedules) THEN sched_issued
                       ELSE Append(sched_issued, scheduler.next_id)
    /\ UNCHANGED sched_checks

AddSchedule(preset, time, days) ==
    /\ scheduler.next_id < MaxTimed
    /\ AddScheduleCall(preset, time, days)
    /\ SchedOnly

\* remove_schedule (210-218)
RemoveSchedule(id) ==
    /\ SchedCall("remove_schedule")
    /\ SchedOnly
    /\ LET pos == PositionOf(scheduler.schedules, id)
       IN  /\ scheduler' =
                 IF pos # 0
                 THEN [scheduler EXCEPT
                          !.schedules = SwapRemove(scheduler.schedules, pos)]
                 ELSE scheduler
           /\ sched_ret' = [kind |-> IF pos # 0 THEN "true" ELSE "false",
                            id |-> id, preset |-> "none"]
    /\ UNCHANGED << sched_checks, sched_issued >>

\* toggle_schedule (221-233)
ToggleSchedule(id, enable) ==
    /\ SchedCall("toggle_schedule")
    /\ SchedOnly
    /\ LET pos == PositionOf(scheduler.schedules, id)
       IN  /\ scheduler' =
                 IF pos # 0
                 THEN [scheduler EXCEPT !.schedules[pos].enabled = enable]
                 ELSE scheduler
           /\ sched_ret' = [kind |-> IF pos # 0 THEN "true" ELSE "false",
                            id |-> id, preset |-> "none"]
    /\ UNCHANGED << sched_checks, sched_issued >>

\* clear_all (236-239)
ClearAll ==
    /\ SchedCall("clear_all")
    /\ SchedOnly
    /\ scheduler' = [scheduler EXCEPT !.schedules = << >>]
    /\ sched_ret' = NoReturn
    /\ UNCHANGED << sched_checks, sched_issued >>

\* what check_and_execute returns (242-275): nothing when the minute is the
\* one of the last check, else the preset of the first schedule to trigger
CheckedEveryCall(sd, current_time, current_day) ==
    LET i == FirstTriggered(sd.schedules, current_time, current_day)
    IN  IF i = 0 THEN NoReturn
        ELSE [kind |-> "Some", id |-> sd.schedules[i].id,
              preset |-> sd.schedules[i].preset]
Checked(sd, current_time, current_day) ==
    LET i == FirstTriggered(sd.schedules, current_time, current_day)
    IN  IF ToMinutes(current_time) = sd.last_check_minute \/ i = 0
        THEN NoReturn
        ELSE [kind |-> "Some", id |-> sd.schedules[i].id,
              preset |-> sd.schedules[i].preset]

CheckAndExecuteCall(current_time, current_day) ==
    /\ SchedCall("check_and_execute")
    /\ scheduler' = [scheduler EXCEPT
                        !.last_check_minute = ToMinutes(current_time)]
    /\ sched_ret' = Checked(scheduler, current_time, current_day)
    /\ sched_checks' =
           LET this == [time |-> current_time, day |-> current_day,
                        some |-> sched_ret'.kind = "Some"]
           IN  IF sched_checks = << >> THEN << this >>
               ELSE << sched_checks[Len(sched_checks)], this >>
    /\ UNCHANGED sched_issued

CheckAndExecute(current_time, current_day) ==
    /\ CheckAndExecuteCall(current_time, current_day)
    /\ SchedOnly

SchedTimes == {TimeOfDay(7, 30), TimeOfDay(7, 31)}
SchedDays == {AllDays, MondayOnly}
SchedPresets == {"rainbow", "off"}
\* Monday, Tuesday, and a day number beyond Sunday
CheckDays == {0, 1, 7}

\* the calls made when check_and_execute is looked at
NextScheduler ==
    \/ \E preset \in SchedPresets, time \in SchedTimes, days \in SchedDays :
           AddSchedule(preset, time, days)
    \/ \E id \in 0..(MaxTimed - 1) : RemoveSchedule(id)
    \/ \E id \in 0..(MaxTimed - 1), enable \in BOOLEAN :
           ToggleSchedule(id, enable)
    \/ ClearAll
    \/ \E time \in SchedTimes, day \in CheckDays : CheckAndExecute(time, day)

\* add_schedule when the list is looked at: one kind of schedule, and more
\* calls than the list has room for
AddToList ==
    /\ scheduler.next_id < MaxSchedIds
    /\ AddScheduleCall("rainbow", TimeOfDay(7, 30), AllDays)
    /\ SchedOnly

\* the calls made when the list is looked at
NextSchedulerList ==
    \/ AddToList
    \/ \E id \in {0, 1, SCHED_CAP} : RemoveSchedule(id)
    \/ \E id \in {0, 5} : ToggleSchedule(id, FALSE)
    \/ ClearAll

----------------------------------------------------------------------------
(* led_task's scheduler check (main.rs 34-85, 141-171) and /schedule/add
   (http.rs 344-453) *)

\* should_check_scheduler's period and the length of a minute, in ms
CHECK_PERIOD_MS == 5000
MINUTE_MS == 60000
\* the timer's last value
MaxNowMs == 125000

MinuteOf(ms) == ms \div MINUTE_MS

\* localtime_r: tm_hour, tm_min, tm_wday; the timer starts on a Monday
\* (tm_wday 1) at 07:30:00
LocalTime(ms) ==
    [tm_hour |-> 7, tm_min |-> 30 + MinuteOf(ms), tm_wday |-> 1]

\* adjusted_day (main.rs 73)
AdjustedDay(day) == IF day = 0 THEN 6 ELSE day - 1

\* TimeCache::new (41-47)
TimeCacheNew == [last_hour |-> 255, last_minute |-> 255, last_check_ms |-> 0]

\* should_check_scheduler (50-60)
ShouldCheckScheduler(tc, ms) == ms - tc.last_check_ms >= CHECK_PERIOD_MS

\* get_current_time_cached (62-84): whether the minute changed
MinuteChanged(tc, ms) ==
    \/ LocalTime(ms).tm_hour # tc.last_hour
    \/ LocalTime(ms).tm_min # tc.last_minute

\* the ids of the stored schedules that should trigger at the time
DueIds(sd, ms) ==
    {sd.schedules[i].id : i \in
        {k \in 1..Len(sd.schedules) :
            ShouldTrigger(sd.schedules[k],
                          TimeOfDay(LocalTime(ms).tm_hour,
                                    LocalTime(ms).tm_min),
                          AdjustedDay(LocalTime(ms).tm_wday))}}

InitLedScheduler ==
    /\ now_ms = 0
    /\ time_cache = TimeCacheNew
    /\ sched_lock = "free"
    /\ lt_pc = "check"
    /\ led_ran = FALSE
    /\ sched_http_pc = "idle"
    /\ sched_http_req = [preset |-> "none", time |-> TimeOfDay(0, 0)]
    /\ sched_http_status = 0
    /\ lt_due = {}
    /\ lt_fired = {}
    /\ lt_missed = {}
    /\ lt_busy = {}

\* everything but the scheduler, its lock and the power state
unscheduled_vars == << audio_vars, level_log, thread_vars, render_vars,
                       queue_vars, http_vars, led_pc, commands_processed,
                       log_vars, ctl_vars, fx_vars, rb_vars, reactive_vars,
                       dp_vars, task_vars, scanner_vars, blink_vars,
                       wipe_vars >>

\* led_task, lines 141-144: when 5 s have passed and the minute is not the
\* cached one, the cache takes the new minute and the scheduler mutex is
\* tried; a held mutex ends the check of this iteration
LedSchedulerBegin ==
    /\ lt_pc = "check"
    /\ IF ~ShouldCheckScheduler(time_cache, now_ms)
       THEN /\ led_ran' = TRUE
            /\ UNCHANGED << time_cache, sched_lock, lt_pc, lt_busy >>
       ELSE IF ~MinuteChanged(time_cache, now_ms)
       THEN /\ time_cache' = [time_cache EXCEPT !.last_check_ms = now_ms]
            /\ led_ran' = TRUE
            /\ UNCHANGED << sched_lock, lt_pc, lt_busy >>
       ELSE /\ time_cache' = [last_hour |-> LocalTime(now_ms).tm_hour,
                              last_minute |-> LocalTime(now_ms).tm_min,
                              last_check_ms |-> now_ms]
            /\ IF sched_lock = "free"
               THEN /\ sched_lock' = "led"
                    /\ lt_pc' = "locked"
                    /\ UNCHANGED << led_ran, lt_busy >>
               ELSE /\ led_ran' = TRUE
                    /\ lt_busy' = lt_busy \cup {MinuteOf(now_ms)}
                    /\ UNCHANGED << sched_lock, lt_pc >>
    /\ UNCHANGED << unscheduled_vars, powered, sched_vars, now_ms,
                    sched_http_pc, sched_http_req, sched_http_status, lt_due,
                    lt_fired, lt_missed >>

\* led_task, lines 145-169: check_and_execute under the mutex; a preset
\* returned is applied (power_on and the setters, or power_off) and the
\* guard dropped
LedSchedulerExecute ==
    /\ lt_pc = "locked"
    /\ CheckAndExecuteCall(TimeOfDay(time_cache.last_hour,
                                     time_cache.last_minute),
                           AdjustedDay(LocalTime(now_ms).tm_wday))
    /\ IF sched_ret'.kind = "Some"
       THEN /\ powered' = (sched_ret'.preset # "off")
            /\ lt_fired' = lt_fired \cup {sched_ret'.id}
       ELSE UNCHANGED << powered, lt_fired >>
    /\ sched_lock' = "free"
    /\ lt_pc' = "check"
    /\ led_ran' = TRUE
    /\ UNCHANGED << unscheduled_vars, now_ms, time_cache, sched_http_pc,
                    sched_http_req, sched_http_status, lt_due, lt_missed,
                    lt_busy >>

\* the timer moves on by one check period once led_task has run, and no
\* handler holds the mutex that long; at a change of minute the schedules
\* that were due and not executed are noted and those due in the new minute
\* taken down
TimerTick ==
    /\ led_ran
    /\ lt_pc = "check"
    /\ sched_http_pc = "idle"
    /\ now_ms < MaxNowMs
    /\ now_ms' = now_ms + CHECK_PERIOD_MS
    /\ led_ran' = FALSE
    /\ IF MinuteOf(now_ms') # MinuteOf(now_ms)
       THEN /\ lt_missed' = lt_missed \cup
                   {[minute |-> MinuteOf(now_ms), id |-> i] :
                        i \in lt_due \ lt_fired}
            /\ lt_due' = DueIds(scheduler, now_ms')
            /\ lt_fired' = {}
       ELSE UNCHANGED << lt_missed, lt_due, lt_fired >>
    /\ UNCHANGED << unscheduled_vars, powered, sched_vars, time_cache,
                    sched_lock, lt_pc, sched_http_pc, sched_http_req,
                    sched_http_status, lt_busy >>

\* /schedule/add (http.rs 436, 450-452): try_lock on the scheduler, 503 when
\* it is held
SchedHttpTryLock(preset, time) ==
    /\ sched_http_pc = "idle"
    /\ scheduler.next_id < MaxTimed
    /\ sched_http_req' = [preset |-> preset, time |-> time]
    /\ IF sched_lock = "free"
       THEN /\ sched_lock' = "http"
            /\ sched_http_pc' = "locked"
            /\ UNCHANGED sched_http_status
       ELSE /\ sched_http_status' = 503
            /\ UNCHANGED << sched_lock, sched_http_pc >>
    /\ UNCHANGED << unscheduled_vars, powered, sched_vars, now_ms,
                    time_cache, lt_pc, led_ran, lt_due, lt_fired, lt_missed,
                    lt_busy >>

\* /schedule/add (http.rs 437-449): add_schedule under the mutex, the answer,
\* and the guard dropped
SchedHttpAdd ==
    /\ sched_http_pc = "locked"
    /\ AddScheduleCall(sched_http_req.preset, sched_http_req.time, AllDays)
    /\ sched_http_status' = IF sched_ret'.kind = "Ok" THEN 200 ELSE 400
    /\ sched_lock' = "free"
    /\ sched_http_pc' = "idle"
    /\ UNCHANGED << unscheduled_vars, powered, now_ms, time_cache, lt_pc,
                    led_ran, sched_http_req, lt_due, lt_fired, lt_missed,
                    lt_busy >>

\* the minutes schedules are added for
AddTimes == {TimeOfDay(7, 31), TimeOfDay(7, 32)}

SchedHttpStep ==
    \/ \E preset \in SchedPresets, time \in AddTimes :
           SchedHttpTryLock(preset, time)
    \/ SchedHttpAdd

LedSchedulerStep == LedSchedulerBegin \/ LedSchedulerExecute

NextLedScheduler == LedSchedulerStep \/ SchedHttpStep \/ TimerTick

----------------------------------------------------------------------------
(* BlinkEffect (effects/blink_effect.rs) *)

\* calls made on one effect
MaxBlinkCalls == 6

BLINK_MIN_US == 50000
BLINK_MAX_US == 2000000

\* cycle_time_us (36-40)
CycleTimeUs(spd) ==
    BLINK_MAX_US - (spd * (BLINK_MAX_US - BLINK_MIN_US)) \div 255

\* BlinkEffect::new (21-33)
BlinkNew(c, spd) ==
    [on |-> c, off |-> Black, speed |-> Clamp(spd, 1, 255),
     current_state |-> TRUE, next_transition_time |-> 0,
     cycle_time_us |-> CycleTimeUs(spd), needs_immediate_render |-> FALSE]

\* the loop over missed transitions (76-79)
RECURSIVE BlinkCatchUp(_, _, _)
BlinkCatchUp(b, half_cycle, now_us) ==
    IF b.next_transition_time <= now_us
    THEN BlinkCatchUp([b EXCEPT
                          !.next_transition_time = @ + half_cycle,
                          !.current_state = ~b.current_state],
                      half_cycle, now_us)
    ELSE b

\* update (43-85): the effect and the buffer after it, and whether the
\* buffer was written
BlinkUpdated(b, now_us, buffer) ==
    LET cleared == [b EXCEPT !.needs_immediate_render = FALSE]
        half_cycle == b.cycle_time_us \div 2
    IN  IF b.needs_immediate_render /\ b.current_state
        THEN [effect |-> cleared, buffer |-> Fill(b.on), wrote |-> TRUE]
        ELSE IF b.next_transition_time = 0
        THEN [effect |-> [cleared EXCEPT
                             !.next_transition_time = now_us + half_cycle],
              buffer |-> Fill(b.on), wrote |-> TRUE]
        ELSE IF now_us >= b.next_transition_time
        THEN [effect |->
                 BlinkCatchUp([cleared EXCEPT
                                  !.current_state = ~b.current_state,
                                  !.next_transition_time = @ + half_cycle],
                              half_cycle, now_us),
              buffer |-> Fill(IF ~b.current_state THEN b.on ELSE b.off),
              wrote |-> TRUE]
        ELSE [effect |-> cleared, buffer |-> buffer, wrote |-> FALSE]

\* set_color (87-95)
BlinkColorSet(b, c) ==
    IF b.on # c
    THEN [b EXCEPT !.on = c, !.needs_immediate_render = TRUE]
    ELSE b

\* set_speed (97-109)
BlinkSpeedSet(b, spd) ==
    LET new_speed == Clamp(spd, 1, 255)
        new_cycle_time == CycleTimeUs(new_speed)
    IN  IF b.speed = new_speed THEN b
        ELSE IF new_cycle_time # b.cycle_time_us
        THEN [b EXCEPT !.speed = new_speed,
                       !.cycle_time_us = new_cycle_time,
                       !.next_transition_time = 0]
        ELSE [b EXCEPT !.speed = new_speed]

InitBlink ==
    /\ blink = BlinkNew(DefaultColor, 255)
    /\ blink_now = 0
    /\ blink_buffer = Fill(Black)
    /\ blink_last = "new"
    /\ blink_wrote = FALSE
    /\ blink_calls = 0

BlinkCall(name) ==
    /\ blink_calls < MaxBlinkCalls
    /\ blink_calls' = blink_calls + 1
    /\ blink_last' = name
    /\ UNCHANGED << base_vars, scanner_vars, sched_vars, ledsched_vars,
                    wipe_vars >>

\* update is called step_us after the last call
BlinkUpdate(step_us) ==
    /\ BlinkCall("update")
    /\ blink_now' = blink_now + step_us
    /\ blink' = BlinkUpdated(blink, blink_now', blink_buffer).effect
    /\ blink_buffer' = BlinkUpdated(blink, blink_now', blink_buffer).buffer
    /\ blink_wrote' = BlinkUpdated(blink, blink_now', blink_buffer).wrote

BlinkSetColor(c) ==
    /\ BlinkCall("set_color")
    /\ blink' = BlinkColorSet(blink, c)
    /\ blink_wrote' = FALSE
    /\ UNCHANGED << blink_now, blink_buffer >>

BlinkSetSpeed(spd) ==
    /\ BlinkCall("set_speed")
    /\ blink' = BlinkSpeedSet(blink, spd)
    /\ blink_wrote' = FALSE
    /\ UNCHANGED << blink_now, blink_buffer >>

\* time between updates: a frame, more than one half cycle at speed 255,
\* more than one at DEFAULT_SPEED
BlinkSteps == {20000, 60000, 600000}
BlinkSpeeds == {DEFAULT_SPEED, 255}

NextBlink ==
    \/ \E step_us \in BlinkSteps : BlinkUpdate(step_us)
    \/ \E c \in Colors : BlinkSetColor(c)
    \/ \E spd \in BlinkSpeeds : BlinkSetSpeed(spd)

----------------------------------------------------------------------------
(* ColorWipeEffect (effect.rs 220-297) *)

\* calls made on one effect
MaxWipeCalls == 8

\* map_speed_to_interval (239-243)
WipeInterval(spd) ==
    LET inverted_speed == 256 - Max(spd, 1)
        interval_ms == (inverted_speed * 148) \div 254 + 2
    IN  interval_ms * 1000

\* ColorWipeEffect::new (229-237)
WipeNew(c, spd, num_leds) ==
    [color |-> c, num_leds |-> num_leds, current_pixel |-> 0,
     time_accumulator |-> 0, pixel_interval_us |-> WipeInterval(spd)]

\* update (249-265): the effect after it, and what it returns
WipeUpdated(w, delta_us) ==
    LET acc == w.time_accumulator + delta_us
    IN  IF acc >= w.pixel_interval_us
        THEN [effect |->
                 [w EXCEPT !.time_accumulator = acc - w.pixel_interval_us,
                           !.current_pixel =
                               IF w.current_pixel + 1 > w.num_leds THEN 0
                               ELSE w.current_pixel + 1],
              stepped |-> TRUE]
        ELSE [effect |-> [w EXCEPT !.time_accumulator = acc],
              stepped |-> FALSE]

InitWipe ==
    /\ wipe = WipeNew(DefaultColor, DEFAULT_SPEED, NumLeds)
    /\ wipe_last = "new"
    /\ wipe_stepped = FALSE
    /\ wipe_calls = 0

WipeCall(name) ==
    /\ wipe_calls < MaxWipeCalls
    /\ wipe_calls' = wipe_calls + 1
    /\ wipe_last' = name
    /\ UNCHANGED << base_vars, scanner_vars, sched_vars, ledsched_vars,
                    blink_vars >>

WipeUpdate(delta_us) ==
    /\ WipeCall("update")
    /\ wipe' = WipeUpdated(wipe, delta_us).effect
    /\ wipe_stepped' = WipeUpdated(wipe, delta_us).stepped

\* set_speed (293-296)
WipeSetSpeed(spd) ==
    /\ WipeCall("set_speed")
    /\ wipe' = [wipe EXCEPT !.pixel_interval_us = WipeInterval(spd)]
    /\ wipe_stepped' = FALSE

\* time between updates: 1 ms, 5 ms, and a frame at 60 fps
WipeDeltas == {1000, 5000, 16666}
WipeSpeeds == {1, 255}

NextWipe ==
    \/ \E delta_us \in WipeDeltas : WipeUpdate(delta_us)
    \/ \E spd \in WipeSpeeds : WipeSetSpeed(spd)

\* the state of the effects added last, when another part is looked at
InitFeatures ==
    InitScanner /\ InitScheduler /\ InitLedScheduler /\ InitBlink /\ InitWipe

\* main has spawned both tasks and start_i2s_audio_task has returned
InitStarted ==
    /\ main_pc = "loop"
    /\ start_result = "Ok"
    /\ read_errors = 0

\* the effects' constructors and the running tasks, for the specifications
\* that leave them alone
InitAudioFx == InitReactive /\ InitDetectPeak /\ InitStarted /\ InitFeatures


InitDisplay == InitController /\ InitStatic /\ InitRainbow /\ InitAudioFx

----------------------------------------------------------------------------
(* Sample blocks and their spectra *)

SAMPLE_RATE == 16000
BUFFER_SIZE == 512
FFT_SIZE == 256
BASS_MAX == 250
MID_MAX == 2000
TREBLE_MAX == 8000

\* the bins of rfft_256 the band loop visits: take(FFT_SIZE / 2)
Bins == 0..(FFT_SIZE \div 2 - 1)

\* A block read from the microphone: len samples of a square wave of
\* amplitude amp, and the l1 magnitudes rfft_256 returns for its window:
\* mag in bin tone and floor in every other bin.
NoSamples == [len |-> 0, amp |-> 0, tone |-> 0, mag |-> 0, floor |-> 0]

Blocks ==
    {NoSamples}
    \cup {[len |-> ShortLen, amp |-> a, tone |-> 0, mag |-> 0, floor |-> 0] :
            a \in {0, 20, FIX}}
    \cup {[len |-> FFT_SIZE, amp |-> 0, tone |-> 0, mag |-> 0, floor |-> 0]}
    \cup {[len |-> FFT_SIZE, amp |-> 20, tone |-> t, mag |-> 2000, floor |-> 0] :
            t \in {0, 4, 127}}
    \cup {[len |-> FFT_SIZE, amp |-> FIX, tone |-> t, mag |-> 100000,
           floor |-> 500] : t \in {3, 31}}
    \cup {[len |-> BUFFER_SIZE, amp |-> FIX, tone |-> 32, mag |-> 100000,
           floor |-> 500]}

Samples(b) == [i \in 1..b.len |-> IF i % 2 = 1 THEN b.amp ELSE -b.amp]

Spectrum(b) == [i \in Bins |-> IF i = b.tone THEN b.mag ELSE b.floor]

----------------------------------------------------------------------------
(* AudioProcessor::process_audio_data: loudness (audio.rs 75-84) *)

\* squares are kept ten times finer than FIX so that quiet blocks survive:
\* SQ_FIX units per 1.0, which is one unit per SQ_UNIT units of FIX * FIX
SQ_FIX == 10 * FIX
SQ_UNIT == (FIX * FIX) \div SQ_FIX

FSquare(v) == (v * v) \div SQ_UNIT

SqrtBetween(x, lo, hi) ==
    LET between[v \in Nat, l \in Nat, h \in Nat] ==
            IF l >= h THEN l
            ELSE LET mid == (l + h + 1) \div 2
                 IN  IF mid * mid <= v THEN between[v, mid, h]
                     ELSE between[v, l, mid - 1]
    IN  between[x, lo, hi]

\* f32::sqrt of a mean of squares
FSqrt(m) == SqrtBetween(m * SQ_UNIT, 0, 46340)

\* rms of samples scaled by current_gain
Rms(samples, current_gain) ==
    LET squares == [i \in DOMAIN samples |->
                       FSquare(FMul(samples[i], current_gain))]
    IN  FSqrt(TruncDiv(SumSeq(squares), Len(samples)))

\* AudioProcessor::smooth_value (audio.rs 101-105)
ALPHA_AMPLITUDE == 150
ALPHA_BAND == 120

SmoothValue(smoothed, current, alpha) ==
    FMul(smoothed, FIX - alpha) + FMul(current, alpha)

----------------------------------------------------------------------------
(* AudioProcessor::analyze_frequencies_fft (audio.rs 134-190) *)

\* the band the loop adds bin i to; freq = i * SAMPLE_RATE / FFT_SIZE
BandOpenEdges(i) ==
    IF i * SAMPLE_RATE < BASS_MAX * FFT_SIZE THEN "bass"
    ELSE IF /\ i * SAMPLE_RATE > BASS_MAX * FFT_SIZE
            /\ i * SAMPLE_RATE < MID_MAX * FFT_SIZE THEN "mid"
    ELSE IF /\ i * SAMPLE_RATE > MID_MAX * FFT_SIZE
            /\ i * SAMPLE_RATE < TREBLE_MAX * FFT_SIZE THEN "treble"
    ELSE "none"
Band(i) ==
    IF i * SAMPLE_RATE < BASS_MAX * FFT_SIZE THEN "bass"
    ELSE IF i * SAMPLE_RATE < MID_MAX * FFT_SIZE THEN "mid"
    ELSE IF i * SAMPLE_RATE < TREBLE_MAX * FFT_SIZE THEN "treble"
    ELSE "none"

BandEnergy(spectrum, band) ==
    SumRange([i \in Bins |-> IF Band(i) = band THEN spectrum[i] ELSE 0],
             0, FFT_SIZE \div 2 - 1)

\* the first bin holding the largest magnitude above 0.0, else bin 0
PeakBin(spectrum) ==
    LET above == {i \in Bins : spectrum[i] > 0}
        best == {i \in above : \A j \in above : spectrum[j] <= spectrum[i]}
    IN  IF above = {} THEN 0
        ELSE CHOOSE i \in best : \A j \in best : i <= j

\* peak_bin as f32 * freq_resolution, in Hz
PeakFrequency(spectrum) ==
    TruncDiv(PeakBin(spectrum) * SAMPLE_RATE * 100, FFT_SIZE) * (FIX \div 100)

----------------------------------------------------------------------------
(* The audio thread: read a block, process_audio_data step by step *)

\* cells a reader locks
Cells == {"smooth_amplitude", "smooth_bass", "smooth_mid", "smooth_treble",
          "peak_freq"}

InitThreads ==
    /\ audio_pc = "read"
    /\ cur_block = NoSamples
    /\ block_no = 0
    /\ fft_energy = [bass |-> 0, mid |-> 0, treble |-> 0]
    /\ holder = [c \in Cells |-> "free"]
    /\ stamp = [c \in Cells |-> 0]
    /\ render_pc = "idle"
    /\ snap = << >>
    /\ reads_done = 0
    /\ led_params = [brightness |-> 0, speed |-> 0, hue_shift |-> 0,
                     intensity |-> 0]

\* i2s_driver.read returns a block; an empty one returns at once (71-73)
AudioRead(b) ==
    /\ audio_pc = "read"
    /\ block_no < MaxBlocks
    /\ cur_block' = b
    /\ block_no' = block_no + 1
    /\ audio_pc' = IF b.len = 0 THEN "read" ELSE "loudness"
    /\ UNCHANGED << display_vars, audio_vars, level_log, fft_energy, holder, stamp,
                    render_vars, inbox_vars >>

\* lines 75-84: rms under the current gain, update_agc(rms), amplitude = rms
ProcessLoudness ==
    /\ audio_pc = "loudness"
    /\ LET rms == Rms(Samples(cur_block), gain)
       IN  /\ peak_history' = AgcPush(peak_history, rms)
           /\ gain' = AgcGain(gain, peak_history')
           /\ level_log' = Append(level_log, rms)
           /\ amplitude' = rms
    /\ audio_pc' = "lock_smooth_amplitude"
    /\ UNCHANGED << display_vars, bass_level, mid_level, treble_level, peak_freq,
                    smooth_amplitude, smooth_bass, smooth_mid, smooth_treble,
                    cur_block, block_no, fft_energy, holder, stamp,
                    render_vars, inbox_vars >>

\* the position at which the audio thread locks cell c, and the one after
\* it has written c
LockPc(c) == "lock_" \o c
WritePc(c) == "write_" \o c
AfterWriteAlwaysFft(c) ==
    CASE c = "smooth_amplitude" -> "fft"
      [] c = "peak_freq" -> "lock_smooth_bass"
      [] c = "smooth_bass" -> "lock_smooth_mid"
      [] c = "smooth_mid" -> "lock_smooth_treble"
      [] c = "smooth_treble" -> "read"
AfterWrite(c) ==
    CASE c = "smooth_amplitude" ->
            IF cur_block.len >= FFT_SIZE THEN "fft" ELSE "read"
      [] c = "peak_freq" -> "lock_smooth_bass"
      [] c = "smooth_bass" -> "lock_smooth_mid"
      [] c = "smooth_mid" -> "lock_smooth_treble"
      [] c = "smooth_treble" -> "read"

\* target.lock() in smooth_value, peak_freq.lock() in analyze: waits while
\* the reader holds the mutex
AudioLock(c) ==
    /\ audio_pc = LockPc(c)
    /\ holder[c] = "free"
    /\ holder' = [holder EXCEPT ![c] = "audio"]
    /\ audio_pc' = WritePc(c)
    /\ UNCHANGED << display_vars, audio_vars, level_log, cur_block, block_no, fft_energy,
                    stamp, render_vars, inbox_vars >>

\* the write under the lock, and the guard dropped
AudioWrite(c) ==
    /\ audio_pc = WritePc(c)
    /\ holder[c] = "audio"
    /\ smooth_amplitude' =
          IF c = "smooth_amplitude"
          THEN SmoothValue(smooth_amplitude, amplitude, ALPHA_AMPLITUDE)
          ELSE smooth_amplitude
    /\ smooth_bass' =
          IF c = "smooth_bass"
          THEN SmoothValue(smooth_bass, bass_level, ALPHA_BAND)
          ELSE smooth_bass
    /\ smooth_mid' =
          IF c = "smooth_mid"
          THEN SmoothValue(smooth_mid, mid_level, ALPHA_BAND)
          ELSE smooth_mid
    /\ smooth_treble' =
          IF c = "smooth_treble"
          THEN SmoothValue(smooth_treble, treble_level, ALPHA_BAND)
          ELSE smooth_treble
    /\ peak_freq' =
          IF c = "peak_freq" THEN PeakFrequency(Spectrum(cur_block))
          ELSE peak_freq
    /\ holder' = [holder EXCEPT ![c] = "free"]
    /\ stamp' = [stamp EXCEPT ![c] = block_no]
    /\ audio_pc' = AfterWrite(c)
    /\ UNCHANGED << display_vars, amplitude, bass_level, mid_level, treble_level, gain,
                    peak_history, level_log, cur_block, block_no, fft_energy,
                    render_vars, inbox_vars >>

\* lines 134-185: band energies of the first FFT_SIZE samples' spectrum and,
\* when their total is above 0.0, the raw band levels
AnalyzeFft ==
    /\ audio_pc = "fft"
    /\ LET spectrum == Spectrum(cur_block)
           bass_energy == BandEnergy(spectrum, "bass")
           mid_energy == BandEnergy(spectrum, "mid")
           treble_energy == BandEnergy(spectrum, "treble")
           total_energy == bass_energy + mid_energy + treble_energy
       IN  /\ fft_energy' = [bass |-> bass_energy, mid |-> mid_energy,
                             treble |-> treble_energy]
           /\ IF total_energy > 0
              THEN /\ bass_level' = FDiv(bass_energy, total_energy)
                   /\ mid_level' = FDiv(mid_energy, total_energy)
                   /\ treble_level' = FDiv(treble_energy, total_energy)
              ELSE UNCHANGED << bass_level, mid_level, treble_level >>
    /\ audio_pc' = "lock_peak_freq"
    /\ UNCHANGED << display_vars, amplitude, peak_freq, gain, peak_history,
                    smooth_amplitude, smooth_bass, smooth_mid, smooth_treble,
                    level_log, cur_block, block_no, holder, stamp,
                    render_vars, inbox_vars >>

AudioStep ==
    \/ \E b \in Blocks : AudioRead(b)
    \/ ProcessLoudness
    \/ \E c \in Cells : AudioLock(c)
    \/ \E c \in Cells : AudioWrite(c)
    \/ AnalyzeFft

InitAudioTask ==
    /\ InitAudio
    /\ InitThreads
    /\ InitInbox
    /\ level_log = << >>
    /\ InitDisplay

SpecAudio == InitAudioTask /\ [][AudioStep]_vars

----------------------------------------------------------------------------
(* A reader: audio_to_led_params and the getters (audio.rs 50-68, 283-296) *)

ReadPc(c) == "read_" \o c

\* the getters in the order audio_to_led_params calls them
AfterRead(c) ==
    CASE c = "smooth_amplitude" -> "lock_smooth_bass"
      [] c = "smooth_bass" -> "lock_smooth_mid"
      [] c = "smooth_mid" -> "lock_smooth_treble"
      [] c = "smooth_treble" -> "lock_peak_freq"
      [] c = "peak_freq" -> "done"

CellValue(c) ==
    CASE c = "smooth_amplitude" -> smooth_amplitude
      [] c = "smooth_bass" -> smooth_bass
      [] c = "smooth_mid" -> smooth_mid
      [] c = "smooth_treble" -> smooth_treble
      [] c = "peak_freq" -> peak_freq

\* audio_to_led_params is entered: get_amplitude comes first
RenderCall ==
    /\ render_pc = "idle"
    /\ reads_done < MaxReads
    /\ render_pc' = LockPc("smooth_amplitude")
    /\ snap' = << >>
    /\ UNCHANGED << display_vars, audio_vars, level_log, thread_vars, reads_done,
                    led_params, inbox_vars >>

\* self.<cell>.lock().unwrap(): the getter waits while the mutex is held
RenderLock(c) ==
    /\ render_pc = LockPc(c)
    /\ holder[c] = "free"
    /\ holder' = [holder EXCEPT ![c] = "render"]
    /\ render_pc' = ReadPc(c)
    /\ UNCHANGED << display_vars, audio_vars, level_log, audio_pc, cur_block, block_no,
                    fft_energy, stamp, snap, reads_done, led_params,
                    inbox_vars >>

\* the value is copied out and the guard dropped
RenderRead(c) ==
    /\ render_pc = ReadPc(c)
    /\ holder[c] = "render"
    /\ snap' = Append(snap, [cell |-> c, value |-> CellValue(c),
                             block |-> stamp[c]])
    /\ holder' = [holder EXCEPT ![c] = "free"]
    /\ render_pc' = AfterRead(c)
    /\ UNCHANGED << display_vars, audio_vars, level_log, audio_pc, cur_block, block_no,
                    fft_energy, stamp, reads_done, led_params, inbox_vars >>

\* AudioLedParams built from the five values read (290-295)
RenderReturn ==
    /\ render_pc = "done"
    /\ LET amp == snap[1].value
           bass == snap[2].value
           mid == snap[3].value
           peak == snap[5].value
       IN  led_params' =
             [brightness |-> Min(amp * 100, 100 * FIX),
              speed |-> Min(Max((bass + mid) * 100, 10 * FIX), 100 * FIX)
                           \div FIX,
              hue_shift |-> Min(TruncDiv(peak, 20), 360 * FIX) \div FIX,
              intensity |-> amp]
    /\ render_pc' = "idle"
    /\ reads_done' = reads_done + 1
    /\ UNCHANGED << display_vars, audio_vars, level_log, thread_vars, snap, inbox_vars >>

RenderStep ==
    \/ RenderCall
    \/ \E c \in Cells : RenderLock(c)
    \/ \E c \in Cells : RenderRead(c)
    \/ RenderReturn

\* blocks of the interleaving check: full-size ones only, so that every
\* block writes all five cells
SnapBlocks == {b \in Blocks : b.amp = FIX /\ b.len = FFT_SIZE}

AudioStepSnap ==
    \/ \E b \in SnapBlocks : AudioRead(b)
    \/ ProcessLoudness
    \/ \E c \in Cells : AudioLock(c)
    \/ \E c \in Cells : AudioWrite(c)
    \/ AnalyzeFft

NextSnapshot == AudioStepSnap \/ RenderStep

SpecSnapshot == InitAudioTask /\ [][NextSnapshot]_vars

----------------------------------------------------------------------------
(* The tasks main starts: the audio thread of start_i2s_audio_task         *)
(* (audio.rs 192-279) and led_task (main.rs 86-175, 316-348)               *)

\* main up to its final loop (main.rs 268-348): start_http_server fails and
\* main returns, or the LED thread is spawned, the audio thread is spawned
\* and its processor returned (audio.rs 199-202, 278), and main loops
MainStart(http_ok) ==
    /\ main_pc = "boot"
    /\ IF http_ok
       THEN /\ main_pc' = "loop"
            /\ led_pc' = "init"
            /\ audio_pc' = "init"
            /\ start_result' = "Ok"
       ELSE /\ main_pc' = "returned"
            /\ UNCHANGED << led_pc, audio_pc, start_result >>
    /\ UNCHANGED << ctl_vars, fx_vars, rb_vars, reactive_vars, dp_vars,
                    feature_vars,
                    read_errors, audio_vars, level_log, cur_block, block_no,
                    fft_energy, holder, stamp, render_vars, queue_vars,
                    http_vars, commands_processed, powered, log_vars >>

\* I2sDriver::new_std_rx and rx_enable (audio.rs 225-243): on Ok the loop is
\* entered, on Err a warning is logged and the closure returns
AudioInit(ok) ==
    /\ audio_pc = "init"
    /\ audio_pc' = IF ok THEN "read" ELSE "exited"
    /\ UNCHANGED << display_vars, audio_vars, level_log, cur_block, block_no,
                    fft_energy, holder, stamp, render_vars, inbox_vars >>

\* i2s_driver.read returned Err (audio.rs 271-272): a warning is logged
AudioReadError ==
    /\ audio_pc = "read"
    /\ block_no < MaxBlocks
    /\ block_no' = block_no + 1
    /\ read_errors' = read_errors + 1
    /\ audio_pc' = "sleep"
    /\ UNCHANGED << ctl_vars, fx_vars, rb_vars, reactive_vars, dp_vars,
                    feature_vars,
                    main_pc, start_result, audio_vars, level_log, cur_block,
                    fft_energy, holder, stamp, render_vars, inbox_vars >>

\* thread::sleep(100 ms) is over (audio.rs 273) and the loop starts again
AudioWakeExits ==
    /\ audio_pc = "sleep"
    /\ audio_pc' = "exited"
    /\ UNCHANGED << display_vars, audio_vars, level_log, cur_block, block_no,
                    fft_energy, holder, stamp, render_vars, inbox_vars >>
AudioWake ==
    /\ audio_pc = "sleep"
    /\ audio_pc' = "read"
    /\ UNCHANGED << display_vars, audio_vars, level_log, cur_block, block_no,
                    fft_energy, holder, stamp, render_vars, inbox_vars >>

\* Ws2812Esp32RmtDriver::new(channel, pin)? (main.rs 94): on Err led_task
\* returns it, the closure logs it and the thread ends (main.rs 330-334)
LedInitEndsAudio(ok) ==
    /\ led_pc = "init"
    /\ led_pc' = IF ok THEN "drain" ELSE "exited"
    /\ audio_pc' = IF ok THEN audio_pc ELSE "exited"
    /\ UNCHANGED << display_vars, audio_vars, level_log, cur_block, block_no,
                    fft_energy, holder, stamp, render_vars, queue_vars,
                    http_vars, commands_processed, powered, log_vars >>
LedInit(ok) ==
    /\ led_pc = "init"
    /\ led_pc' = IF ok THEN "drain" ELSE "exited"
    /\ UNCHANGED << display_vars, audio_vars, level_log, thread_vars,
                    render_vars, queue_vars, http_vars, commands_processed, powered,
                    log_vars >>

\* the /power handler alone
PowerHttpStep ==
    \/ \E st \in {-1, 0, 1} : PowerHttpParse(st)
    \/ PowerHttpTryLock
    \/ PowerHttpEnqueue
    \/ PowerHttpRespond

\* a block of LoopLen samples of amplitude amp: too short for the FFT, so
\* process_audio_data ends for it once smooth_amplitude is written
\* (audio.rs 90)
ShortBlock(amp) ==
    [len |-> LoopLen, amp |-> amp, tone |-> 0, mag |-> 0, floor |-> 0]

\* what read hands over in SpecTasks, and in SpecAudioLoop
TaskBlocks == {ShortBlock(FIX)}
LoopBlocks == {NoSamples, ShortBlock(20), ShortBlock(FIX)}

\* the audio thread from its start, with every outcome of read
\* (audio.rs 225-276)
AudioThreadStep(blocks) ==
    \/ \E ok \in BOOLEAN : AudioInit(ok)
    \/ \E b \in blocks : AudioRead(b)
    \/ ProcessLoudness
    \/ \E c \in Cells : AudioLock(c)
    \/ \E c \in Cells : AudioWrite(c)
    \/ AudioReadError
    \/ AudioWake

AudioTaskStep == AudioThreadStep(TaskBlocks)

LedThreadStep ==
    \/ \E ok \in BOOLEAN : LedInit(ok)
    \/ LedTaskStep

----------------------------------------------------------------------------
(* SpecQueue: the /led and /power handlers against led_task *)

InitQueue ==
    /\ InitAudio
    /\ InitThreads
    /\ InitInbox
    /\ level_log = << >>
    /\ InitDisplay

NextQueue == HttpStep \/ LedTaskStep

SpecQueue == InitQueue /\ [][NextQueue]_vars

\* led_task is a thread of its own that loops forever with a 1 ms delay
FairSpecQueue == SpecQueue /\ WF_vars(LedTaskStep)

----------------------------------------------------------------------------
(* SpecAgc: update_agc called directly with a stream of loudness levels *)

\* loudness inputs: silence, just above the AGC epsilon, the 0.3 of the
\* convergence scenario, and a level above 1.0 (a post-gain RMS)
Levels == {0, 11, 300, 2000}

CallUpdateAgc(level) ==
    /\ Len(level_log) < MaxCalls
    /\ IF Len(level_log) < FreeCalls
       THEN TRUE
       ELSE level = level_log[Len(level_log)]
    /\ peak_history' = AgcPush(peak_history, level)
    /\ gain' = AgcGain(gain, peak_history')
    /\ level_log' = Append(level_log, level)
    /\ UNCHANGED << amplitude, bass_level, mid_level, treble_level, peak_freq,
                    smooth_amplitude, smooth_bass, smooth_mid, smooth_treble >>
    /\ UNCHANGED << display_vars, thread_vars, render_vars, inbox_vars >>

InitAgc ==
    /\ InitAudio
    /\ InitThreads
    /\ InitInbox
    /\ level_log = << >>
    /\ InitDisplay

NextAgc == \E level \in Levels : CallUpdateAgc(level)

SpecAgc == InitAgc /\ [][NextAgc]_vars

----------------------------------------------------------------------------
(* SpecController: commands, the timer and update on one LedController *)

InitProgram ==
    /\ InitAudio
    /\ InitThreads
    /\ InitInbox
    /\ level_log = << >>

InitControllerTask == InitProgram /\ InitDisplay

SpecController == InitControllerTask /\ [][NextController]_vars

\* led_task loops forever: the timer keeps running and update keeps being
\* called; commands may or may not arrive
FairSpecController ==
    SpecController /\ WF_vars(TimerAdvance) /\ WF_vars(UpdateStep)

----------------------------------------------------------------------------
(* SpecStatic: calls on a StaticEffect of either revision *)

InitStaticAny ==
    /\ InitProgram
    /\ InitController
    /\ InitRainbow
    /\ InitAudioFx
    /\ \E variant \in StaticVariants, c \in FxColors,
          buffer \in [1..NumLeds -> FxColors] : StaticNew(variant, c, buffer)

SpecStatic == InitStaticAny /\ [][NextStatic]_vars

----------------------------------------------------------------------------
(* SpecRainbow: update and set_speed on a RainbowEffect as the timer runs *)

RbBootTimes == {0, 1000}

InitRainbowAny ==
    /\ InitProgram
    /\ InitController
    /\ InitStatic
    /\ InitAudioFx
    /\ \E s \in RbSpeeds, now \in RbBootTimes : RainbowNew(s, now)

SpecRainbow == InitRainbowAny /\ [][NextRainbow]_vars

----------------------------------------------------------------------------
(* SpecAudioLoop: the audio thread from its start, with read errors *)

InitAudioLoop ==
    /\ InitAudio
    /\ audio_pc = "init"
    /\ cur_block = NoSamples
    /\ block_no = 0
    /\ fft_energy = [bass |-> 0, mid |-> 0, treble |-> 0]
    /\ holder = [c \in Cells |-> "free"]
    /\ stamp = [c \in Cells |-> 0]
    /\ render_pc = "idle"
    /\ snap = << >>
    /\ reads_done = 0
    /\ led_params = [brightness |-> 0, speed |-> 0, hue_shift |-> 0,
                     intensity |-> 0]
    /\ InitInbox
    /\ level_log = << >>
    /\ InitDisplay

NextAudioLoop == AudioThreadStep(LoopBlocks)

SpecAudioLoop == InitAudioLoop /\ [][NextAudioLoop]_vars

\* the thread is scheduled again and again
FairSpecAudioLoop == SpecAudioLoop /\ WF_vars(NextAudioLoop)

----------------------------------------------------------------------------
(* SpecTasks: main, the audio thread, led_task and the /power handler *)

InitTasks ==
    /\ InitAudio
    /\ audio_pc = "unstarted"
    /\ cur_block = NoSamples
    /\ block_no = 0
    /\ fft_energy = [bass |-> 0, mid |-> 0, treble |-> 0]
    /\ holder = [c \in Cells |-> "free"]
    /\ stamp = [c \in Cells |-> 0]
    /\ render_pc = "idle"
    /\ snap = << >>
    /\ reads_done = 0
    /\ led_params = [brightness |-> 0, speed |-> 0, hue_shift |-> 0,
                     intensity |-> 0]
    /\ q_buffer = [i \in 0..(QUEUE_N - 1) |-> NoCommand]
    /\ q_head = 0
    /\ q_tail = 0
    /\ producer_lock = "free"
    /\ led_http_pc = "idle"
    /\ commands_to_send = << >>
    /\ led_request = << >>
    /\ send_success = TRUE
    /\ led_http_status = 0
    /\ power_http_pc = "idle"
    /\ power_state = FALSE
    /\ power_http_status = 0
    /\ led_pc = "unstarted"
    /\ commands_processed = 0
    /\ powered = FALSE
    /\ requests = [led |-> 0, power |-> 0]
    /\ next_id = 1
    /\ accepted = << >>
    /\ rejected = << >>
    /\ applied = << >>
    /\ level_log = << >>
    /\ InitController
    /\ InitStatic
    /\ InitRainbow
    /\ InitReactive
    /\ InitDetectPeak
    /\ main_pc = "boot"
    /\ start_result = "none"
    /\ read_errors = 0
    /\ InitFeatures

NextTasks ==
    \/ \E http_ok \in BOOLEAN : MainStart(http_ok)
    \/ main_pc = "loop" /\ AudioTaskStep
    \/ main_pc = "loop" /\ LedThreadStep
    \/ main_pc = "loop" /\ PowerHttpStep

SpecTasks == InitTasks /\ [][NextTasks]_vars

\* both threads are scheduled again and again
FairSpecTasks ==
    SpecTasks /\ WF_vars(AudioTaskStep) /\ WF_vars(LedThreadStep)

----------------------------------------------------------------------------
(* SpecReactive: update_audio called again and again on one audio-reactive *)
(* effect                                                                  *)

InitReactiveAny ==
    /\ InitProgram
    /\ InitController
    /\ InitStatic
    /\ InitRainbow
    /\ InitDetectPeak
    /\ InitStarted
    /\ InitFeatures
    /\ \E e \in ReactiveEffects, s \in ReSpeeds, dt \in TimeSteps :
          ReactiveNew(e, s, dt)

SpecReactive == InitReactiveAny /\ [][NextReactive]_vars

----------------------------------------------------------------------------
(* SpecScanner: update, set_speed and render called on one ScannerEffect *)

\* everything outside the effects added last
InitBase ==
    /\ InitProgram
    /\ InitController
    /\ InitStatic
    /\ InitRainbow
    /\ InitReactive
    /\ InitDetectPeak
    /\ InitStarted

InitScannerAny ==
    /\ InitBase
    /\ \E num_leds \in 1..MaxScanLeds, spd \in ScannerSpeeds :
          scanner = ScannerNew(Rgb(255, 0, 0), spd, num_leds)
    /\ scanner_before = scanner
    /\ scanner_last = "new"
    /\ scanner_stepped = FALSE
    /\ scanner_render = "none"
    /\ scanner_calls = 0
    /\ InitScheduler
    /\ InitLedScheduler
    /\ InitBlink
    /\ InitWipe

SpecScanner == InitScannerAny /\ [][NextScanner]_vars

----------------------------------------------------------------------------
(* SpecScheduler, SpecSchedulerList: calls on one LedScheduler *)

InitSchedulerTask == InitBase /\ InitFeatures

SpecScheduler == InitSchedulerTask /\ [][NextScheduler]_vars

SpecSchedulerList == InitSchedulerTask /\ [][NextSchedulerList]_vars

\* led_task's scheduler check beside /schedule/add requests
SpecLedScheduler == InitSchedulerTask /\ [][NextLedScheduler]_vars

----------------------------------------------------------------------------
(* SpecBlink: update, set_color and set_speed called on one BlinkEffect *)

SpecBlink == InitSchedulerTask /\ [][NextBlink]_vars

----------------------------------------------------------------------------
(* SpecWipe: update and set_speed called on one ColorWipeEffect *)

InitWipeAny ==
    /\ InitBase
    /\ InitScanner
    /\ InitScheduler
    /\ InitLedScheduler
    /\ InitBlink
    /\ \E spd \in WipeSpeeds : wipe = WipeNew(DefaultColor, spd, NumLeds)
    /\ wipe_last = "new"
    /\ wipe_stepped = FALSE
    /\ wipe_calls = 0

SpecWipe == InitWipeAny /\ [][NextWipe]_vars

----------------------------------------------------------------------------
(* SpecDetectPeak: one detect_peak call on each effect, on any arguments *)

InitDetectPeakAny ==
    /\ InitProgram
    /\ InitController
    /\ InitStatic
    /\ InitRainbow
    /\ InitReactive
    /\ InitStarted
    /\ InitFeatures
    /\ dp_result = NoResult
    /\ dp_current \in PeakLevels
    /\ dp_history \in [1..HISTORY_LEN -> HistoryLevels]

SpecDetectPeak == InitDetectPeakAny /\ [][NextDetectPeak]_vars

----------------------------------------------------------------------------
(* Claims on the automatic gain control *)

\* C1: after every update_agc call, for any non-negative input levels and
\* starting from gain 1.0, MIN_GAIN <= gain <= MAX_GAIN.
C1_GainBounded == MIN_GAIN <= gain /\ gain <= MAX_GAIN

\* a quiet stream has driven the gain up into the ceiling
C1_Witness ==
    /\ Len(level_log) > FreeCalls
    /\ level_log[Len(level_log)] = 11
    /\ gain = MAX_GAIN

\* all levels fed so far are the 0.3 of the convergence scenario
ConstantFeed(log) == \A i \in 1..Len(log) : log[i] = 300

\* the gain the loop steers to under a constant 0.3: 0.7 / 0.3
ConvergedGain == FDiv(TARGET_LEVEL, 300)

\* C8: under a constant level 0.3 from gain 1.0 and an empty history, the
\* distance of the gain to 0.7/0.3 never grows from one call to the next,
\* and after 200 calls the gain is within a small tolerance of it (the
\* smallest step the fixed-point representation resolves), unclamped.
C8_AgcConverges ==
    /\ [][ConstantFeed(level_log')
            => Abs(gain' - ConvergedGain) <= Abs(gain - ConvergedGain)]_vars
    /\ []((Len(level_log) >= 200 /\ ConstantFeed(level_log))
            => /\ Abs(gain - ConvergedGain) <= FIX \div AGC_SPEED
               /\ gain < MAX_GAIN)

C8_Witness ==
    /\ Len(level_log) = 200
    /\ ConstantFeed(level_log)
    /\ Abs(gain - ConvergedGain) <= FIX \div AGC_SPEED

\* the last n entries of a sequence (all of it when it is shorter)
LastN(log, n) ==
    IF Len(log) <= n THEN log ELSE SubSeq(log, Len(log) - n + 1, Len(log))

\* C9: after every update_agc call the history holds at most 100 entries and
\* is exactly the most recent (up to 100) inputs in arrival order.
C9_HistoryIsRecentWindow ==
    /\ Len(peak_history) <= HIST_CAP
    /\ peak_history = LastN(level_log, HIST_CAP)

\* the capacity has been exceeded and an older, different level was evicted
C9_Witness ==
    /\ Len(level_log) > HIST_CAP + FreeCalls
    /\ level_log[1] # level_log[Len(level_log)]
    /\ Len(peak_history) = HIST_CAP

----------------------------------------------------------------------------
(* Claims on process_audio_data *)

\* the published snapshot: what the getters return (audio.rs 50-68)
Snapshot ==
    << smooth_amplitude, smooth_bass, smooth_mid, smooth_treble, peak_freq >>

\* C6: in every reachable state the published volume lies in [0.0, 1.0].
\* The code publishes the smoothed post-gain RMS without clamping it.
C6_VolumeInUnitRange == 0 <= smooth_amplitude /\ smooth_amplitude <= FIX

\* C7 as stated: a block that is empty or shorter than FFT_SIZE leaves
\* volume, bass, mid, treble and peak frequency all unchanged.
C7_ShortBlockIsNoOp ==
    [][cur_block'.len < FFT_SIZE => Snapshot' = Snapshot]_vars

\* C7 amended: an empty block changes nothing of the processor; a non-empty
\* block shorter than FFT_SIZE leaves bass, mid, treble and peak frequency
\* (raw and published) unchanged, while volume and the AGC follow the block.
C7_ShortBlockKeepsBands ==
    [][/\ cur_block'.len = 0 => UNCHANGED << audio_vars, level_log >>
       /\ cur_block'.len < FFT_SIZE =>
             UNCHANGED << smooth_bass, smooth_mid, smooth_treble, peak_freq,
                          bass_level, mid_level, treble_level >>]_vars

\* an undersized block has been processed after a full one had published
\* band levels, and it moved the volume
C7_Witness ==
    /\ cur_block.len = ShortLen
    /\ audio_pc = "read"
    /\ smooth_bass > 0
    /\ stamp["smooth_amplitude"] = block_no
    /\ stamp["smooth_bass"] < block_no

\* analyze_frequencies_fft has run for the current block
FftAnalysed ==
    /\ cur_block.len >= FFT_SIZE
    /\ audio_pc \notin {"loudness", "lock_smooth_amplitude",
                        "write_smooth_amplitude", "fft"}

\* C10: whenever analyze_frequencies_fft finds total band energy > 0, the
\* raw band levels it stores sum to 1.0 within tolerance (one unit per
\* division), and the three band energies together are the sum of all bins
\* below Nyquist: each bin is counted in exactly one band.
C10_BandsPartitionAndNormalise ==
    (FftAnalysed /\ fft_energy.bass + fft_energy.mid + fft_energy.treble > 0)
        => /\ Abs(bass_level + mid_level + treble_level - FIX) <= 3
           /\ fft_energy.bass + fft_energy.mid + fft_energy.treble
                 = SumRange(Spectrum(cur_block), 0, FFT_SIZE \div 2 - 1)
           /\ \A i \in Bins : Band(i) \in {"bass", "mid", "treble"}

\* a tone on the mid/treble edge over a noise floor in every bin
C10_Witness ==
    /\ FftAnalysed
    /\ cur_block.tone = 32
    /\ cur_block.floor > 0
    /\ treble_level > 0
    /\ bass_level > 0

\* process_audio_data has returned for a non-empty block
BlockProcessed == audio_pc = "read" /\ cur_block.len > 0

\* C11: a published metric whose raw value for the block just processed is
\* below the noise floor is published as exactly zero.  A raw value of 0.0
\* is below every floor, so the gate would give: raw volume 0.0 publishes
\* volume 0.0, and a raw band level 0.0 of an analysed block publishes 0.0
\* for that band, however many such blocks follow.
\* The code has no gate: the published value is the moving average.
C11_BelowFloorIsZero ==
    BlockProcessed =>
        /\ amplitude = 0 => smooth_amplitude = 0
        /\ cur_block.len >= FFT_SIZE =>
              /\ bass_level = 0 => smooth_bass = 0
              /\ mid_level = 0 => smooth_mid = 0
              /\ treble_level = 0 => smooth_treble = 0

----------------------------------------------------------------------------
(* Claims on the snapshot shared by the audio thread and a reader *)

\* C4: a reader's getter never waits for the audio thread: whenever the
\* audio thread holds a snapshot lock, a reader about to take that lock is
\* not held up.  The getters call lock(), which waits.
C4_ReaderNeverWaits ==
    \A c \in Cells : render_pc = LockPc(c) => holder[c] # "audio"

\* C5: the volume, bass, mid and treble audio_to_led_params returns were all
\* produced by the same processed block.
C5_SnapshotFromOneBlock ==
    render_pc = "done"
        => \A i, j \in 1..4 : snap[i].block = snap[j].block

----------------------------------------------------------------------------
(* Claims on the command inbox *)

\* the /led handler is about to enqueue the next of its commands
LedAttempt == led_http_pc = "enqueue" /\ commands_to_send # << >>

\* C2: with the queue full, an enqueue attempt fails and hands the command
\* back, and the queue is not disturbed: head, tail and slots stay as they
\* are, so that the queued commands can only leave, oldest first, through
\* the consumer.
C2_FullQueueRejects ==
    [][QFull =>
         /\ QItems' = QItems \/ QItems' = Tail(QItems)
         /\ (LedAttempt /\ commands_to_send' # commands_to_send) =>
               /\ << q_buffer, q_head, q_tail >>' = << q_buffer, q_head, q_tail >>
               /\ rejected' = Append(rejected, Head(commands_to_send))
               /\ accepted' = accepted
               /\ send_success' = FALSE]_vars

\* an attempt failed on a full queue, and afterwards the commands queued
\* at that time all came out, in the order they went in
C2_Witness ==
    /\ rejected # << >>
    /\ Len(applied) >= QUEUE_N - 1
    /\ applied = accepted
    /\ \A i \in 1..Len(applied) : applied[i].id # rejected[1].id

\* C3: every command the queue accepted is applied by led_task exactly once
\* and in the order of acceptance: at any time the applied commands followed
\* by the queued ones are the accepted ones, in every interleaving of the
\* handlers with the LED loop.
\* Since the LED loop keeps running, led_task again and again has applied
\* all that was accepted.
C3_AppliedOnceInOrder ==
    /\ [](/\ accepted = applied \o QItems
          /\ \A i, j \in 1..Len(applied) :
                i < j => applied[i].id # applied[j].id)
    /\ []<>(applied = accepted)

\* commands of two requests were accepted while led_task was draining, and
\* all of them have been applied
C3_Witness ==
    /\ Len(applied) > COMMANDS_PER_ITERATION
    /\ applied = accepted
    /\ \E i \in 1..Len(applied) : applied[i].kind = "SetPowerState"
    /\ QEmpty


\* the steps of the /led handler once its body is parsed
LedHandlerStep == LedHttpTryLock \/ LedHttpEnqueue \/ LedHttpRespond

\* C12: the /led handler never waits on the inbox.  Whatever the other
\* handler and led_task do, a started /led handler always has a step it can
\* take; finding the producer lock held it gives up without touching the
\* queue, finding the queue full it stops enqueuing and drops the lock, and
\* in both cases it answers 503.  A handler that is enqueuing holds the
\* producer lock, so at most one handler enqueues at any moment.
C12_LedHandlerNeverBlocks ==
    /\ [](led_http_pc # "idle" => ENABLED LedHandlerStep)
    /\ [](/\ led_http_pc = "enqueue" => producer_lock = "led"
          /\ power_http_pc = "enqueue" => producer_lock = "power")
    /\ [][(/\ led_http_pc = "try_lock"
           /\ led_http_pc' # "try_lock"
           /\ commands_to_send # << >>
           /\ producer_lock # "free")
             => /\ led_http_pc' = "respond"
                /\ send_success' = FALSE
                /\ UNCHANGED << queue_vars, accepted >>]_vars
    /\ [][(LedAttempt /\ QFull /\ commands_to_send' # commands_to_send)
             => /\ led_http_pc' = "respond"
                /\ send_success' = FALSE
                /\ commands_to_send' = << >>
                /\ producer_lock' = "free"]_vars
    /\ [][(led_http_pc = "respond" /\ led_http_pc' = "idle" /\ ~send_success)
             => led_http_status' = 503]_vars

\* the /led handler found the producer lock held by the /power handler and
\* is about to answer 503 with its commands unsent
C12_Witness ==
    /\ led_http_pc = "respond"
    /\ ~send_success
    /\ commands_to_send # << >>
    /\ producer_lock = "power"
    /\ power_http_pc = "enqueue"


\* C13: one iteration of the led_task loop dequeues at most
\* COMMANDS_PER_ITERATION commands.  A command is dequeued only while fewer
\* than that many were dequeued in this iteration, it is the oldest queued
\* one and the others stay queued in order; once the limit is reached the
\* loop is at controller.update(), and the count starts again only after it.
C13_DrainIsBounded ==
    /\ [](commands_processed <= COMMANDS_PER_ITERATION)
    /\ [](commands_processed = COMMANDS_PER_ITERATION => led_pc = "update")
    /\ [][applied' # applied =>
             /\ led_pc = "drain"
             /\ commands_processed < COMMANDS_PER_ITERATION
             /\ commands_processed' = commands_processed + 1
             /\ applied' = Append(applied, Head(QItems))
             /\ QItems' = Tail(QItems)]_vars
    /\ [][commands_processed' < commands_processed =>
             led_pc = "update" /\ led_pc' = "drain" /\ applied' = applied]_vars

\* the limit ended a drain with commands still queued
C13_Witness ==
    /\ led_pc = "update"
    /\ commands_processed = COMMANDS_PER_ITERATION
    /\ QLen >= 2
    /\ accepted = applied \o QItems


----------------------------------------------------------------------------
(* Claims on RainbowEffect *)

\* distance of two hues around the color circle
HueDistance(a, b) ==
    IF Abs(a - b) <= HUE_TURN - Abs(a - b) THEN Abs(a - b)
    ELSE HUE_TURN - Abs(a - b)

\* the hue of pixel 0 moved by at most one animation step over set_speed
\* on an effect that had computed a frame
HueKept ==
    HueDistance(HueShown(rb_speed, rb_start_time, rb_now), rb_hue_before)
        <= HueSpeed(rb_speed) * TARGET_FRAME_TIME

\* start_time is a time the timer has shown
StartTimeValid == 0 <= rb_start_time /\ rb_start_time <= rb_now

\* C19: right after set_speed the hue update computes for pixel 0 is the
\* hue it computed right before (within one animation step), and the
\* re-anchored start_time is a valid time at or before now, for every old
\* and new speed and every time of the call.
\* The code subtracts the time to the current hue at the new speed from
\* now without checking that the timer has run that long.
C19_SpeedChangeKeepsHue ==
    rb_last = "set_speed" =>
        /\ ~rb_panicked
        /\ StartTimeValid
        /\ (rb_hue_before # NoHue /\ ~rb_panicked) => HueKept


----------------------------------------------------------------------------
(* Claims on StaticEffect *)

\* the call just made drew the effect into the buffer: render of effect.rs,
\* update of effects/static_effect.rs
StaticDrew ==
    \/ fx_last' = "render"
    \/ fx_variant = "static_effect" /\ fx_last' = "update"

----------------------------------------------------------------------------
(* Claims on LedController *)

\* the step is a call of update that passed the frame-interval check
UpdatePassed == elapsed >= FRAME_INTERVAL /\ ctl_last' \in {"skipped", "written"}

\* C14: transfers keep occurring as long as the timer runs and update is
\* called, also when no command arrives and the frame does not change:
\* the bit flipped by every write_blocking changes again and again.
\* The code has no keep-alive: update transfers only a changed frame or a
\* flagged redraw.
C14_TransfersKeepOccurring ==
    \A b \in {0, 1} : []<>(write_seq = b)

\* C15: a command that changes visible state (set_effect always, set_color
\* and set_speed with a different value, set_brightness by more than
\* BRIGHTNESS_EPS) raises needs_update; an update that returns early leaves
\* the flag as it is; and an update that passes the frame-interval check
\* with the flag raised calls write_blocking; nothing else lowers the flag.
C15_ChangeIsTransferred ==
    /\ [][ctl_last' = "set_effect" => needs_update']_vars
    /\ [][(/\ ctl_last' \in {"set_color", "set_speed", "set_brightness"}
           /\ << color, speed, brightness >>' # << color, speed, brightness >>)
             => needs_update']_vars
    /\ [][ctl_last' = "early" => needs_update' = needs_update]_vars
    /\ [][(needs_update /\ UpdatePassed) =>
             /\ ctl_last' = "written"
             /\ write_seq' # write_seq
             /\ ~needs_update']_vars
    /\ [][(needs_update /\ ~needs_update') =>
             UpdatePassed /\ ctl_last' = "written"]_vars

\* an update that was not yet due kept the redraw flag of a color change,
\* the timer ran on, and the update that was due wrote the new color
C15_Witness ==
    /\ ctl_last = "written"
    /\ last_write = "ok"
    /\ effect = "Blink"
    /\ color = Rgb(255, 0, 0)
    /\ brightness = 500
    /\ strip = Fill(Rgb(127, 0, 0))
    /\ prev_frame = Fill(Rgb(255, 0, 0))

\* C16: after write_blocking returned an error, a later update calls
\* write_blocking again, also when no command arrives and the frame does
\* not change.
\* update_frame logs the error and drops it: update stores the frame as
\* transferred and clears the flag.
C16_FailedTransferRetried ==
    \A b \in {0, 1} : (last_write = "err" /\ write_seq = b) ~> (write_seq # b)

\* C17: with Static or Off active and the redraw flag clear (the first
\* transfer is done and no command changed state since), the frame update
\* computes equals prev_frame, and no call of update calls write_blocking.
C17_StaticTransfersOnce ==
    /\ []((effect \in StaticLike /\ ~needs_update)
             => ScaleFrame(EffectFrame, brightness) = prev_frame)
    /\ [][(/\ effect \in StaticLike
           /\ ~needs_update
           /\ ctl_last' \in {"early", "skipped", "written"})
             => /\ ctl_last' # "written"
                /\ UNCHANGED << strip, write_seq, last_write, prev_frame >>]_vars

\* Static at half brightness was transferred, and a later update that was
\* due found nothing to transfer
C17_Witness ==
    /\ effect = "Static"
    /\ brightness = 500
    /\ ctl_last = "skipped"
    /\ last_write = "ok"
    /\ strip = Fill(Rgb(75, 75, 75))
    /\ prev_frame = strip

\* C20: set_effect changes the active effect, the tick and the redraw flag
\* only: the stored color, speed and brightness are the ones set last, and
\* the frame the next transfer writes is the new effect's frame in that
\* color at that brightness.
C20_SwitchKeepsColorAndSpeed ==
    /\ [][ctl_last' = "set_effect" =>
             /\ UNCHANGED << color, speed, brightness, elapsed, prev_frame,
                             strip >>
             /\ tick' = 0
             /\ needs_update']_vars
    /\ [][(ctl_last' = "written" /\ last_write' = "ok" /\ write_seq' # write_seq)
             => strip' = ScaleFrame(EffectFrame, brightness)]_vars

\* the effect was switched to Blink with a color, a speed and a brightness
\* that are not the defaults
C20_Witness ==
    /\ ctl_last = "set_effect"
    /\ effect = "Blink"
    /\ color = Rgb(255, 0, 0)
    /\ speed = 255
    /\ brightness = 500
    /\ needs_update

----------------------------------------------------------------------------
(* Claims on the audio-reactive effects *)

\* a spawn request of the last update_audio that found the collection full
RefusedSpawn ==
    \E k \in 1..Len(spawn_trace) : spawn_trace[k].full

\* C21: the Gravimeter never holds more than 16 particles and the
\* RadialPulse never more than 20 pulses, and a spawn request made while
\* the collection is full leaves the collection as it was.
C21_CapacityKept ==
    /\ Len(gravimeter.particles) <= GRAV_CAP
    /\ Len(radial_pulse.pulses) <= PULSE_CAP
    /\ \A k \in 1..Len(spawn_trace) :
          spawn_trace[k].full => spawn_trace[k].same

\* a Gravimeter update that refused a spawn and still holds 16 particles
C21_Witness ==
    /\ re_effect = "Gravimeter"
    /\ re_last = "update"
    /\ RefusedSpawn
    /\ Len(gravimeter.particles) = GRAV_CAP

\* the same on the RadialPulse with its 20 pulses
C21_WitnessPulse ==
    /\ re_effect = "RadialPulse"
    /\ re_last = "update"
    /\ RefusedSpawn
    /\ Len(radial_pulse.pulses) = PULSE_CAP

\* the time the peak marker had been held when the last update ran
VuTimeHeld == SatSub(re_now, vu_before.peak_hold_time)

VuUpdateRan == re_effect = "VuMeter" /\ re_last = "update"

\* C22: in an update of the VU meter the peak marker rises only when the
\* smoothed current_level is at least the previous peak_level; otherwise it
\* keeps its value while no more than 450 ms have passed since it was
\* pushed last, and after that it falls in every update, never below
\* current_level.
C22_PeakNeverJumps ==
    VuUpdateRan =>
        LET old == vu_before.peak_level
            new == vu_meter.peak_level
            cur == vu_meter.current_level
        IN  /\ new > old => cur >= old
            /\ (cur < old /\ VuTimeHeld <= PEAK_HOLD_DURATION_US) => new = old
            /\ (cur < old /\ VuTimeHeld > PEAK_HOLD_DURATION_US) => new < old
            /\ new >= cur

\* an update past the hold time in which the marker fell and stayed above
\* the bar
C22_Witness ==
    /\ VuUpdateRan
    /\ vu_meter.current_level < vu_before.peak_level
    /\ VuTimeHeld > PEAK_HOLD_DURATION_US
    /\ vu_meter.peak_level < vu_before.peak_level
    /\ vu_meter.peak_level > vu_meter.current_level

\* an update within the hold time in which the marker stayed above the bar
C22_WitnessHeld ==
    /\ VuUpdateRan
    /\ vu_meter.current_level < vu_before.peak_level
    /\ VuTimeHeld <= PEAK_HOLD_DURATION_US
    /\ VuTimeHeld > 0
    /\ vu_meter.peak_level = vu_before.peak_level

----------------------------------------------------------------------------
(* Claims on the tasks *)

\* the audio thread is inside its capture loop
InCaptureLoop == audio_pc \notin {"unstarted", "init", "exited"}

\* process_audio_data has returned for block n
Processed(n) == audio_pc = "read" /\ stamp["smooth_amplitude"] = n

\* the audio thread is inside process_audio_data
Processing == InCaptureLoop /\ audio_pc \notin {"read", "sleep"}

\* C23: once the I2S driver is initialised the audio loop never exits: a
\* read error is followed by the 100 ms sleep and the sleep by the next
\* read, and every non-empty block read, also after errors, is processed
\* before the next read.
C23_LoopNeverExits ==
    /\ [][InCaptureLoop => InCaptureLoop']_vars
    /\ [][read_errors' # read_errors => audio_pc' = "sleep"]_vars
    /\ [][Processing /\ audio_pc' = "read" => Processed(block_no)']_vars
    /\ (audio_pc = "sleep" \/ Processing) ~> (audio_pc = "read")

\* a block processed after a read error
C23_Witness ==
    /\ read_errors > 0
    /\ block_no > read_errors
    /\ Processed(block_no)
    /\ cur_block.len > 0

\* the values the getters return (audio.rs 50-68)
GettersZero ==
    /\ smooth_amplitude = 0
    /\ smooth_bass = 0
    /\ smooth_mid = 0
    /\ smooth_treble = 0
    /\ peak_freq = 0

LedRunning == led_pc \in {"drain", "update"}

\* C24: when the microphone initialisation fails the audio thread ends
\* alone: start_i2s_audio_task has returned the processor, the getters
\* return zero from then on, and led_task goes on draining the queue and
\* updating; when led_task fails the audio thread is not ended by it and
\* goes on processing, and main stays in its loop.
C24_TasksFailAlone ==
    /\ [](audio_pc = "exited" => start_result = "Ok" /\ GettersZero)
    /\ [][audio_pc' = "exited" /\ audio_pc # "exited" =>
            led_pc' = led_pc /\ main_pc' = main_pc]_vars
    /\ [][led_pc' = "exited" /\ led_pc # "exited" =>
            audio_pc' = audio_pc /\ main_pc' = main_pc]_vars
    /\ [](led_pc = "exited" => main_pc = "loop")
    /\ (audio_pc = "exited" /\ LedRunning /\ (~QEmpty \/ led_pc = "drain"))
          ~> (QEmpty /\ led_pc = "update")
    /\ (led_pc = "exited" /\ Processing) ~> (audio_pc = "read")

\* the microphone failed and led_task has applied a command since
C24_Witness ==
    /\ audio_pc = "exited"
    /\ start_result = "Ok"
    /\ led_pc = "update"
    /\ Len(applied) > 0

\* led_task failed and the audio thread has processed a block since
C24_WitnessLed ==
    /\ led_pc = "exited"
    /\ main_pc = "loop"
    /\ block_no > 0
    /\ Processed(block_no)
    /\ cur_block.len > 0

----------------------------------------------------------------------------
(* C25: every update_audio call writes every pixel *)

\* C25: after any update_audio call on VuMeterEffect, GravimeterEffect or
\* RadialPulseEffect, the first call after construction included, every
\* pixel of the buffer has been written by that call
C25_EveryPixelWritten ==
    re_last \in {"first", "update"} => re_written = AllPixels

\* the first call has returned and the buffer still holds, pixel for pixel,
\* what the effect active before had left in it
C25_FirstCallKeepsLeftOver ==
    /\ re_last = "first"
    /\ re_calls = 1
    /\ re_buffer = LeftOver(Len(re_buffer))

----------------------------------------------------------------------------
(* C26: what process_audio_data pushes into the AGC history *)

\* the block just pushed: ProcessLoudness has run on cur_block
LoudnessPushed == audio_pc = "lock_smooth_amplitude" /\ Len(peak_history) > 0

\* C26: the entry process_audio_data adds to the history is the pre-gain
\* RMS of the block: it is the RMS the same block has under the gain 1.0
\* and under the lowest gain alike
C26_PushedRmsIgnoresGain ==
    LoudnessPushed =>
        \A g \in {MIN_GAIN, FIX} :
            peak_history[Len(peak_history)] = Rms(Samples(cur_block), g)

----------------------------------------------------------------------------
(* C27: update_agc on a history whose mean is at most 0.01 *)

\* C27: when the mean of the history, the new value included, is at most
\* 0.01, update_agc pushes the value and changes nothing else: the gain
\* stays what it was
C27_QuietMeanKeepsGain ==
    [][AvgPeak(peak_history') <= AGC_EPS =>
            /\ gain' = gain
            /\ peak_history' =
                   AgcPush(peak_history, level_log'[Len(level_log')])
            /\ UNCHANGED << amplitude, smooth_amplitude >>]_vars

\* update_agc has been called and the mean it found is exactly 0.01, with
\* a sound in the history
C27_Witness ==
    /\ Len(level_log) > 0
    /\ AvgPeak(peak_history) = AGC_EPS
    /\ \E k \in 1..Len(peak_history) : peak_history[k] > AGC_EPS

----------------------------------------------------------------------------
(* C28, C29: detect_peak of GravimeterEffect and of RadialPulseEffect *)

\* C28: for every current value and every 6-entry history,
\* GravimeterEffect::detect_peak and RadialPulseEffect::detect_peak return
\* the same result
C28_SamePredicate ==
    dp_result.called => dp_result.gravimeter = dp_result.radial_pulse

GRAV_FLOOR == 120
PULSE_FLOOR == 150

\* C29: a current value at or below the floor, 0.12 in Gravimeter and 0.15
\* in RadialPulse, is no peak whatever the history holds
C29_NoPeakAtOrBelowFloor ==
    dp_result.called =>
        /\ dp_current <= GRAV_FLOOR => ~dp_result.gravimeter
        /\ dp_current <= PULSE_FLOOR => ~dp_result.radial_pulse

\* both predicates have been asked about a value on the Gravimeter floor
\* over an all-zero history
C29_Witness ==
    /\ dp_result.called
    /\ dp_current = GRAV_FLOOR
    /\ dp_history = ZeroHistory
    /\ ~dp_result.gravimeter
    /\ ~dp_result.radial_pulse

\* the same on the RadialPulse floor, where Gravimeter does see a peak
C29_WitnessPulse ==
    /\ dp_result.called
    /\ dp_current = PULSE_FLOOR
    /\ dp_history = ZeroHistory
    /\ dp_result.gravimeter
    /\ ~dp_result.radial_pulse

----------------------------------------------------------------------------
(* C30: every Gravimeter particle is removed in the end *)

GravUpdateRan == re_effect = "Gravimeter" /\ re_last = "update"

\* a position within [-2, num_leds + 2)
OnStrip(p) == p.position >= -2 * FIX /\ p.position < (GravLeds + 2) * FIX

\* a brightness at or below 0.008
Dark(p) == p.brightness <= GRAV_MIN_BRIGHTNESS

\* calls made on silence by now, at the least: the inputs repeat once
\* FreeUpdates of them have been chosen
SilentCalls ==
    IF re_audio = Silence /\ re_calls > FreeUpdates
    THEN re_calls - FreeUpdates
    ELSE 0

\* silent calls after which no particle is left
DieOutCalls == MaxUpdates - FreeUpdates - 2

\* C30: no particle outlives an update_physics that finds it at or below
\* the brightness 0.008 or outside [-2, num_leds + 2), no other particle is
\* dropped, and once DieOutCalls calls in a row have been made on silence
\* the particle list is empty
C30_ParticlesDieOut ==
    re_effect = "Gravimeter" =>
        /\ \A k \in 1..Len(gravimeter.particles) :
               ~Dark(gravimeter.particles[k]) /\ OnStrip(gravimeter.particles[k])
        /\ \A k \in 1..Len(re_removed) :
               Dark(re_removed[k]) \/ ~OnStrip(re_removed[k])
        /\ SilentCalls >= DieOutCalls => gravimeter.particles = << >>

\* an update on silence that dropped the last particle because it had
\* gone dark on the strip
C30_Witness ==
    /\ GravUpdateRan
    /\ SilentCalls > 0
    /\ gravimeter.particles = << >>
    /\ \E k \in 1..Len(re_removed) :
           Dark(re_removed[k]) /\ OnStrip(re_removed[k])

\* an update that dropped a particle still bright, past the end of the strip
C30_WitnessOffStrip ==
    /\ GravUpdateRan
    /\ \E k \in 1..Len(re_removed) :
           ~Dark(re_removed[k]) /\ ~OnStrip(re_removed[k])


----------------------------------------------------------------------------
(* C31 *)

\* C31: for any strip length num_leds >= 1 and any sequence of update and
\* set_speed calls, the scanner's position stays within 0..num_leds-1, an
\* update that steps moves it by exactly one pixel, the direction reverses
\* only at pixel 0 and at pixel num_leds-1, and render never indexes outside
\* the buffer.
C31_ScannerStaysOnStrip ==
    /\ scanner.position \in 0..(scanner.num_leds - 1)
    /\ scanner_render # "panic"
    /\ (scanner_last = "update" /\ scanner_stepped)
          => Abs(scanner.position - scanner_before.position) = 1
    /\ scanner.direction # scanner_before.direction
          => scanner_before.position \in {0, scanner.num_leds - 1}

\* on a strip of one pixel the first step leaves the strip and render panics
C31_OnePixelRenderPanics ==
    /\ scanner.num_leds = 1
    /\ scanner.position < 0
    /\ scanner_render = "panic"

\* on strips of two pixels and more the statement holds
C31_HoldsFromTwoPixels == scanner.num_leds >= 2 => C31_ScannerStaysOnStrip


----------------------------------------------------------------------------
(* C32 *)

\* the number of lit pixels in a frame
LitPixels(frame) == Cardinality({i \in 1..Len(frame) : frame[i] # Black})

\* C32: with ColorWipe active in LedController and update called repeatedly
\* while time advances, the number of lit pixels in the frame colorwipe_effect
\* produces eventually becomes greater than zero (unless the effect is
\* switched away or the color set to black first).
C32_WipeAdvances ==
    (effect = "ColorWipe" /\ color # Black)
        ~> (effect # "ColorWipe" \/ color = Black
            \/ LitPixels(ColorWipeFrame) > 0)

\* nothing advances tick, so the wipe stays at its first frame: all dark
C32_TickNeverAdvances ==
    /\ tick = 0
    /\ effect = "ColorWipe" => LitPixels(ColorWipeFrame) = 0

\* ColorWipe in a visible color was active when a frame was written
C32_WipeFrameWritten ==
    /\ effect = "ColorWipe"
    /\ color # Black
    /\ ctl_last = "written"
    /\ LitPixels(strip) = 0


----------------------------------------------------------------------------
(* C33 *)

\* the last check_and_execute call
LastCheck == sched_checks[Len(sched_checks)]

\* C33: two consecutive check_and_execute calls with the same hour:minute
\* never both return a preset, and a preset returned comes from a stored
\* schedule that is enabled, has the weekday of the call selected and has
\* the call's hour:minute; a disabled schedule or one without the weekday
\* never produces it.
C33_AtMostOncePerMinute ==
    /\ (Len(sched_checks) = 2 /\ sched_checks[1].time = sched_checks[2].time)
          => ~(sched_checks[1].some /\ sched_checks[2].some)
    /\ (sched_last = "check_and_execute" /\ sched_ret.kind = "Some")
          => \E i \in 1..Len(scheduler.schedules) :
                 LET sch == scheduler.schedules[i]
                 IN  /\ sch.id = sched_ret.id
                     /\ sch.preset = sched_ret.preset
                     /\ sch.enabled
                     /\ LastCheck.day \in 0..6
                     /\ sch.days[LastCheck.day]
                     /\ sch.time = LastCheck.time

\* a second call in the same minute returned nothing although the schedule
\* that fired on the first call still matches
C33_Witness ==
    /\ sched_last = "check_and_execute"
    /\ Len(sched_checks) = 2
    /\ sched_checks[1].time = sched_checks[2].time
    /\ sched_checks[1].some
    /\ sched_ret.kind = "None"
    /\ FirstTriggered(scheduler.schedules, LastCheck.time, LastCheck.day) # 0

\* a call on a matching minute returned nothing because the only schedule of
\* that minute is disabled, and one because its weekday is not selected
C33_WitnessDisabled ==
    /\ sched_last = "check_and_execute"
    /\ sched_ret.kind = "None"
    /\ Len(sched_checks) = 1
    /\ Len(scheduler.schedules) = 1
    /\ scheduler.schedules[1].time = LastCheck.time
    /\ ~scheduler.schedules[1].enabled
    /\ scheduler.schedules[1].days[0]
    /\ LastCheck.day = 0


----------------------------------------------------------------------------
(* C39 *)

\* no value occurs twice in the sequence
NoDuplicates(ids) ==
    \A i, j \in 1..Len(ids) : ids[i] = ids[j] => i = j

\* C39: after any sequence of add_schedule, remove_schedule, toggle_schedule
\* and clear_all the scheduler holds at most 16 schedules with pairwise
\* distinct ids; add_schedule on a full list returns an error and leaves the
\* stored schedules unchanged, and no id is given to two schedules.
C39_ListBoundedIdsFresh ==
    /\ Len(scheduler.schedules) <= SCHED_CAP
    /\ NoDuplicates([i \in 1..Len(scheduler.schedules) |->
                        scheduler.schedules[i].id])
    /\ (sched_last = "add_schedule"
        /\ Len(sched_before.schedules) = SCHED_CAP)
          => /\ sched_ret.kind = "Err"
             /\ scheduler.schedules = sched_before.schedules
    /\ NoDuplicates(sched_issued)
    /\ \A i \in 1..Len(scheduler.schedules) :
           \E k \in 1..Len(sched_issued) :
               sched_issued[k] = scheduler.schedules[i].id

\* add_schedule was called on a full list
C39_Witness ==
    /\ sched_last = "add_schedule"
    /\ Len(sched_before.schedules) = SCHED_CAP
    /\ sched_ret.kind = "Err"

\* a schedule was added after ids 0 and 1 had been removed
C39_WitnessAfterRemove ==
    /\ sched_last = "add_schedule"
    /\ sched_ret.kind = "Ok"
    /\ PositionOf(scheduler.schedules, 0) = 0
    /\ PositionOf(scheduler.schedules, 1) = 0
    /\ Len(scheduler.schedules) >= 2


----------------------------------------------------------------------------
(* C38 *)

\* the command led_task applied last
LastApplied == applied[Len(applied)]

\* C38: every SetEffect, SetBrightness, SetColor and SetSpeed command powers
\* the controller on, so once a command has been applied the strip is
\* powered off exactly when the last command applied was
\* SetPowerState(false).
C38_OffOnlyAfterPowerOff ==
    Len(applied) > 0
        => (~powered <=> (/\ LastApplied.kind = "SetPowerState"
                          /\ LastApplied.arg = 0))

\* the strip had been switched off and a SetSpeed command switched it on
C38_Witness ==
    /\ Len(applied) >= 2
    /\ applied[Len(applied) - 1].kind = "SetPowerState"
    /\ applied[Len(applied) - 1].arg = 0
    /\ LastApplied.kind = "SetSpeed"
    /\ powered

\* the strip is off after SetPowerState(false) followed other commands
C38_WitnessOff ==
    /\ Len(applied) >= 2
    /\ applied[Len(applied) - 1].kind # "SetPowerState"
    /\ LastApplied.kind = "SetPowerState"
    /\ ~powered


----------------------------------------------------------------------------
(* C34 *)

\* C34: every enabled schedule whose hour:minute and weekday match the
\* current time is executed by led_task during that minute, for every
\* interleaving with the HTTP handlers that take the scheduler lock: no
\* minute ends with a schedule that was due throughout it and not executed.
C34_DueSchedulesExecuted == lt_missed = {}

\* a minute ended without its only due schedule executed, and the scheduler
\* mutex was held when led_task noticed the change to that minute
C34_MissedWhenLockHeld ==
    \E e \in lt_missed :
        /\ e.minute \in lt_busy
        /\ Len(scheduler.schedules) = 2
        /\ scheduler.schedules[1].id = e.id
        /\ scheduler.schedules[2].time # scheduler.schedules[1].time

\* while the mutex is free at every change of minute, a schedule is missed
\* only behind an earlier one of the same minute
C34_MissedBehindEarlier ==
    \A e \in lt_missed :
        \/ e.minute \in lt_busy
        \/ \E i, j \in 1..Len(scheduler.schedules) :
               /\ i < j
               /\ scheduler.schedules[j].id = e.id
               /\ scheduler.schedules[i].time = scheduler.schedules[j].time


----------------------------------------------------------------------------
(* C35 *)

\* the commands of the /led request being served that the queue accepted
RequestAccepted ==
    {i \in 1..Len(led_request) :
        \E k \in 1..Len(accepted) : accepted[k].id = led_request[i].id}

\* C35: a /led request is atomic with respect to the inbox: when the handler
\* answers with failure none of the commands of the request was enqueued,
\* and when it answers ok all of them were.
C35_RequestIsAtomic ==
    led_http_pc = "respond"
        => IF send_success
           THEN RequestAccepted = 1..Len(led_request)
           ELSE RequestAccepted = {}

\* the handler is about to answer 503 with the first commands of the request
\* in the inbox and a later one handed back by the full queue
C35_PartlyEnqueued ==
    /\ led_http_pc = "respond"
    /\ ~send_success
    /\ RequestAccepted # {}
    /\ \E k \in 1..Len(rejected) :
           \E i \in 1..Len(led_request) : rejected[k].id = led_request[i].id

\* an ok answer does mean that every command of the request was enqueued
C35_OkMeansAll ==
    (led_http_pc = "respond" /\ send_success)
        => RequestAccepted = 1..Len(led_request)


----------------------------------------------------------------------------
(* C36 *)

\* C36: after every BlinkEffect.update call that writes the buffer, the
\* buffer is filled with the on color exactly when current_state is true and
\* with the off color otherwise, for any update times and any set_speed and
\* set_color calls between them.
C36_BufferShowsState ==
    (blink_last = "update" /\ blink_wrote)
        => blink_buffer = Fill(IF blink.current_state THEN blink.on
                               ELSE blink.off)

\* an update after more than one half cycle wrote the off color and left
\* current_state true
C36_OffWrittenStateOn ==
    /\ blink_last = "update"
    /\ blink_wrote
    /\ blink_buffer = Fill(blink.off)
    /\ blink.current_state

\* the update after a set_speed wrote the on color with current_state false
C36_OnWrittenStateOff ==
    /\ blink_last = "update"
    /\ blink_wrote
    /\ blink_buffer = Fill(blink.on)
    /\ ~blink.current_state


----------------------------------------------------------------------------
(* C37 *)

\* C37: after every ColorWipeEffect.update, time_accumulator is smaller than
\* pixel_interval_us, so that no backlog of elapsed time builds up, for any
\* delta_us and any set_speed calls; current_pixel stays within 0..num_leds.
C37_NoBacklog ==
    /\ wipe_last = "update"
          => wipe.time_accumulator < wipe.pixel_interval_us
    /\ wipe.current_pixel \in 0..wipe.num_leds

\* an update that stepped left more than a whole interval in the accumulator
C37_BacklogAfterStep ==
    /\ wipe_last = "update"
    /\ wipe_stepped
    /\ wipe.time_accumulator >= 2 * wipe.pixel_interval_us

\* the part of the statement about current_pixel holds
C37_PixelInRange == wipe.current_pixel \in 0..wipe.num_leds

\* the wipe has gone round: an update took current_pixel from num_leds to 0
C37_Wrapped ==
    /\ wipe_last = "update"
    /\ wipe_stepped
    /\ wipe.current_pixel = 0

============================================================================
